---------------------------- MODULE Spec2Model ----------------------------
(***************************************************************************)
(* A model of the orbit repository: the two-line element parser            *)
(* (src/src/tle.rs), the catalog reader and satellite selection            *)
(* (src/src/tle.rs, src/src/main.rs), the derived orbital quantities       *)
(* (src/src/satellite.rs, with the Newton-Raphson solver they rest on) and *)
(* the sampling pipelines (src/src/movement.rs, src/src/track.rs,          *)
(* src/src/horizon.rs).                                                    *)
(*                                                                         *)
(* Text is modelled by TLA+ strings; the character at 0-based index i of   *)
(* s is SubSeq(s, i + 1, i + 1).  Only ASCII text is modelled, so byte     *)
(* indices and character indices coincide as they do for a well-formed     *)
(* element line.  Decimal numbers are modelled exactly as m * 10^e; the    *)
(* rounding of f64 is not modelled.                                        *)
(***************************************************************************)
EXTENDS Integers, Sequences, FiniteSets, TLC

VARIABLES
    field,     \* fix_string: the trimmed field text handed to it
    fixed,     \* fix_string: its outcome, NoRet before the call
    line,      \* line_checksum: the element line handed to it
    checksum,  \* line_checksum: its outcome, NoRet before the call
    input,     \* TLE::new: the lines of the record handed to it
    parsed,    \* TLE::new: its outcome, NoRet before the call
    file,      \* main: the catalog file, whether it can be read and its lines
    tles,      \* main: the outcome of parse_file, NoRet before the call
    satellite, \* main: the outcome of the search by name, NoRet before it
    handed,    \* main: the TLE handed to movement::calculate, NoRet if none
    orbit,     \* Satellite: the element set and body behind the trait object
    time,      \* Satellite: the time a quantity is asked for
    quantity,  \* Satellite: the name of the method called, "" before a call
    value,     \* Satellite: what the method returned, NoRet before a call
    job,       \* calculate: the satellite, station and output handed to it
    runs,      \* calculate: its invocations so far, each range with its outcome
    angles,    \* calculate: what one run of the closure computes lambda from
    emitted    \* calculate: for each mode that ran, the Sample it collected

fixVars == << field, fixed >>
sumVars == << line, checksum >>
tleVars == << input, parsed >>
mainVars == << file, tles, satellite, handed >>
satVars == << orbit, time, quantity, value >>
pipeVars == << job, runs >>
lonVars == << angles, emitted >>
vars == << fixVars, sumVars, tleVars, mainVars, satVars, pipeVars, lonVars >>

(***************************************************************************)
(* Outcomes.  A Rust call returns a value, returns Err(ParseError) through *)
(* try!, or unwinds with a panic.                                          *)
(***************************************************************************)
Ok(v) == [kind |-> "Ok", v |-> v]
Err == [kind |-> "Err", v |-> "ParseError"]
Panic == [kind |-> "Panic", v |-> "panic"]
NoRet == [kind |-> "Pending", v |-> "pending"]

IsOk(r) == r.kind = "Ok"

\* the parts of the state an operation does not use stay as they are here
IdleFix == field = "" /\ fixed = NoRet
IdleSum == line = "" /\ checksum = NoRet
IdleTLE == input = << >> /\ parsed = NoRet
IdleMain ==
    /\ file = [readable |-> TRUE, lines |-> << >>]
    /\ tles = NoRet
    /\ satellite = NoRet
    /\ handed = NoRet
IdleSat == orbit = << >> /\ time = 0 /\ quantity = "" /\ value = NoRet
IdlePipe == job = << >> /\ runs = << >>
IdleLon == angles = << >> /\ emitted = << >>

(***************************************************************************)
(* Characters and strings.                                                 *)
(***************************************************************************)
Digits == {"0", "1", "2", "3", "4", "5", "6", "7", "8", "9"}

CharAt(s, i) == SubSeq(s, i, i)

\* char::to_digit(10)
DigitVal(c) ==
    CASE c = "0" -> 0 [] c = "1" -> 1 [] c = "2" -> 2 [] c = "3" -> 3
      [] c = "4" -> 4 [] c = "5" -> 5 [] c = "6" -> 6 [] c = "7" -> 7
      [] c = "8" -> 8 [] c = "9" -> 9

\* char::is_digit(10)
IsDigit(c) == c \in Digits

\* str::starts_with
StartsWith(s, p) == Len(s) >= Len(p) /\ SubSeq(s, 1, Len(p)) = p

\* str::find, as the 1-based position of the first match from position i on,
\* 0 when there is none
RECURSIVE FindFrom(_, _, _)
FindFrom(s, p, i) ==
    IF i + Len(p) - 1 > Len(s) THEN 0
    ELSE IF SubSeq(s, i, i + Len(p) - 1) = p THEN i
    ELSE FindFrom(s, p, i + 1)

Find(s, p) == FindFrom(s, p, 1)

\* str::replace: every non-overlapping match, left to right
RECURSIVE Replace(_, _, _)
Replace(s, p, r) ==
    LET k == Find(s, p)
    IN  IF k = 0 THEN s
        ELSE SubSeq(s, 1, k - 1) \o r \o Replace(SubSeq(s, k + Len(p), Len(s)), p, r)

\* str::trim, for the blank the element lines use
RECURSIVE TrimLeft(_)
TrimLeft(s) ==
    IF Len(s) > 0 /\ CharAt(s, 1) = " " THEN TrimLeft(SubSeq(s, 2, Len(s))) ELSE s

RECURSIVE TrimRight(_)
TrimRight(s) ==
    IF Len(s) > 0 /\ CharAt(s, Len(s)) = " " THEN TrimRight(SubSeq(s, 1, Len(s) - 1)) ELSE s

Trim(s) == TrimRight(TrimLeft(s))

\* &s[a..b] with Rust's 0-based half-open range: a panic when the range is
\* reversed or ends past the string
Slice(s, a, b) ==
    IF a <= b /\ b <= Len(s) THEN Ok(SubSeq(s, a + 1, b)) ELSE Panic

(***************************************************************************)
(* Numbers.  A decimal value is [m, e], standing for m * 10^e, kept        *)
(* normalised (m has no trailing zero; zero is [0, 0]) so that equal       *)
(* values are equal records.                                               *)
(***************************************************************************)
RECURSIVE Norm(_, _)
Norm(m, e) ==
    IF m = 0 THEN [m |-> 0, e |-> 0]
    ELSE IF m % 10 = 0 THEN Norm(m \div 10, e + 1)
    ELSE [m |-> m, e |-> e]

\* v * k, for the integer factors the parser applies
Times(v, k) == Norm(v.m * k, v.e)

\* the position of the first character at or after i that is no digit
RECURSIVE SkipDigits(_, _)
SkipDigits(s, i) ==
    IF i <= Len(s) /\ IsDigit(CharAt(s, i)) THEN SkipDigits(s, i + 1) ELSE i

\* the number written by a string of digits
RECURSIVE DigitsValue(_)
DigitsValue(s) ==
    IF Len(s) = 0 THEN 0
    ELSE 10 * DigitsValue(SubSeq(s, 1, Len(s) - 1)) + DigitVal(CharAt(s, Len(s)))

\* str::parse::<iN>() and str::parse::<u32>(): an optional sign, then one or
\* more digits and nothing else; a value outside lo..hi is an error
parse_int(s, lo, hi) ==
    LET n == Len(s)
        signed == n >= 1 /\ CharAt(s, 1) \in {"+", "-"}
        body == IF signed THEN SubSeq(s, 2, n) ELSE s
        \* the integer slices of an element line hold at most five characters
        mag == DigitsValue(body)
        val == IF signed /\ CharAt(s, 1) = "-" THEN 0 - mag ELSE mag
    IN  IF Len(body) = 0 \/ SkipDigits(body, 1) # Len(body) + 1 THEN Err
        ELSE IF val < lo \/ val > hi THEN Err
        ELSE Ok(val)

I8_MIN == -128
I8_MAX == 127
I16_MIN == -32768
I16_MAX == 32767
I32_MIN == -2147483647 - 1
I32_MAX == 2147483647

parse_i8(s) == parse_int(s, I8_MIN, I8_MAX)
parse_i16(s) == parse_int(s, I16_MIN, I16_MAX)
parse_i32(s) == parse_int(s, I32_MIN, I32_MAX)
\* parse::<u32>() of the three-character day-of-year slice
parse_u32(s) == parse_int(s, 0, I32_MAX)

\* str::parse::<f64>() on decimal literals:
\*   [+-] (digits [. digits] | . digits) [(e|E) [+-] digits]
parse_f64(s) ==
    LET n == Len(s)
        signed == n >= 1 /\ CharAt(s, 1) \in {"+", "-"}
        neg == signed /\ CharAt(s, 1) = "-"
        p0 == IF signed THEN 2 ELSE 1
        p1 == SkipDigits(s, p0)
        hasDot == p1 <= n /\ CharAt(s, p1) = "."
        p2 == IF hasDot THEN SkipDigits(s, p1 + 1) ELSE p1
        intDigits == SubSeq(s, p0, p1 - 1)
        fracDigits == IF hasDot THEN SubSeq(s, p1 + 1, p2 - 1) ELSE ""
        hasExp == p2 <= n /\ CharAt(s, p2) \in {"e", "E"}
        expSigned == hasExp /\ p2 + 1 <= n /\ CharAt(s, p2 + 1) \in {"+", "-"}
        expNeg == expSigned /\ CharAt(s, p2 + 1) = "-"
        p3 == IF expSigned THEN p2 + 2 ELSE p2 + 1
        p4 == IF hasExp THEN SkipDigits(s, p3) ELSE p2
        expDigits == IF hasExp THEN SubSeq(s, p3, p4 - 1) ELSE ""
        mant == DigitsValue(intDigits \o fracDigits)
        ex == IF expNeg THEN 0 - DigitsValue(expDigits) ELSE DigitsValue(expDigits)
        wellFormed ==
            /\ Len(intDigits) + Len(fracDigits) >= 1
            /\ hasExp => Len(expDigits) >= 1
            /\ p4 = n + 1
    IN  IF wellFormed
        THEN Ok(Norm(IF neg THEN 0 - mant ELSE mant, ex - Len(fracDigits)))
        ELSE Err

(***************************************************************************)
(* fix_string (tle.rs): rewrites the compact "assumed decimal point"       *)
(* encoding into a literal parse::<f64>() accepts.  s.len() - 2 is a usize *)
(* subtraction and the ranges are checked slices, so a string too short    *)
(* for them panics.                                                        *)
(***************************************************************************)
fix_string(s) ==
    LET n == Len(s)
        dash == Find(s, "-")
    IN  IF StartsWith(s, "-.") THEN Ok(Replace(s, "-.", "-0."))
        ELSE IF StartsWith(s, ".") THEN Ok("0" \o s)
        ELSE IF dash = 1
        THEN IF n < 2 \/ ~IsOk(Slice(s, 1, n - 2)) THEN Panic
             ELSE Ok("-0." \o Slice(s, 1, n - 2).v \o "e" \o Slice(s, n - 2, n).v)
        ELSE IF dash > 1
        THEN Ok("0." \o Slice(s, 0, n - 2).v \o "e" \o Slice(s, n - 2, n).v)
        ELSE Ok(Replace("0." \o s, "+0", "e+0"))

(***************************************************************************)
(* line_checksum (tle.rs): the sum over every character but the last of    *)
(* the digit's value, 1 for '-' (to_digit fails on it, unwrap_or(1)) and   *)
(* nothing for the rest (filtered out), modulo 10, compared with the last  *)
(* character read as a digit.  The unwrap of the last character's digit    *)
(* panics when the line is empty or does not end in a digit.               *)
(***************************************************************************)
\* what one character adds: the filter keeps the digits and '-', and
\* to_digit(10).unwrap_or(1) makes '-' count 1
checksum_term(c) ==
    IF IsDigit(c) THEN DigitVal(c) ELSE IF c = "-" THEN 1 ELSE 0

\* the fold's sum over the characters lo..hi of s, added up by halves
RECURSIVE ChecksumFoldOver(_, _, _)
ChecksumFoldOver(s, lo, hi) ==
    IF lo > hi THEN 0
    ELSE IF lo = hi THEN checksum_term(CharAt(s, lo))
    ELSE LET mid == (lo + hi) \div 2
         IN  ChecksumFoldOver(s, lo, mid) + ChecksumFoldOver(s, mid + 1, hi)

ChecksumFold(s) == ChecksumFoldOver(s, 1, Len(s))

\* calculated_checksum with the sum taken modulo 5
calculated_checksum_mod5(ln) == ChecksumFold(SubSeq(ln, 1, Len(ln) - 1)) % 5

\* calculated_checksum without skip(1): the check digit summed as well
calculated_checksum_unskipped(ln) == ChecksumFold(ln) % 10

calculated_checksum(ln) == ChecksumFold(SubSeq(ln, 1, Len(ln) - 1)) % 10

line_checksum(ln) ==
    IF Len(ln) = 0 \/ ~IsDigit(CharAt(ln, Len(ln))) THEN Panic
    ELSE Ok(calculated_checksum(ln) = DigitVal(CharAt(ln, Len(ln))))

(***************************************************************************)
(* TLE::new (tle.rs).  The struct literal evaluates its fields in source   *)
(* order; the first field that fails decides the outcome: try! returns     *)
(* Err(ParseError), while an out-of-range slice, an unwrap of a failed     *)
(* parse, chrono's yo and from_num_seconds_from_midnight, fix_string and   *)
(* line_checksum panic.                                                    *)
(***************************************************************************)
\* try!(e): the outcome of e, as it is
Try(r) == r

\* e.unwrap() on a Result: a panic where e failed
Unwrap(r) == IF IsOk(r) THEN r ELSE Panic

\* f applied to the slice line[a..b], where the slice exists
OnSlice(ln, a, b, f(_)) ==
    LET sl == Slice(ln, a, b) IN IF IsOk(sl) THEN f(sl.v) ELSE Panic

\* fix_string(text).parse::<f64>()
parse_fixed(text) ==
    LET fx == fix_string(text) IN IF IsOk(fx) THEN parse_f64(fx.v) ELSE Panic

\* MapTimes with the closure's factor left out
MapTimes_unscaled(r, k) == r

\* r.map(|v| v * k)
MapTimes(r, k) == IF IsOk(r) THEN Ok(Times(r.v, k)) ELSE r

IsLeapYear(y) == (y % 4 = 0 /\ y % 100 # 0) \/ y % 400 = 0
DaysInYear(y) == IF IsLeapYear(y) THEN 366 ELSE 365

RECURSIVE Pow10(_)
Pow10(n) == IF n = 0 THEN 1 ELSE 10 * Pow10(n - 1)

SECONDS_PER_DAY == 86400

\* floor(3600 * 24 * v) for a day fraction 0 <= v < 1, computed in parts
\* that stay within 32 bits
SecondsOfDay(v) ==
    LET k == 0 - v.e
    IN  IF v.m = 0 \/ k > 9 THEN 0
        ELSE IF k <= 1 THEN (SECONDS_PER_DAY * v.m) \div Pow10(k)
        ELSE IF k <= 5 THEN ((SECONDS_PER_DAY \div 100) * v.m) \div Pow10(k - 2)
        ELSE ((SECONDS_PER_DAY \div 100) * (v.m \div 10000)
              + (SECONDS_PER_DAY * (v.m % 10000)) \div 1000000) \div Pow10(k - 6)

\* v < 1
BelowOne(v) == v.m <= 0 \/ (v.e < 0 /\ (0 - v.e > 9 \/ v.m < Pow10(0 - v.e)))

\* The timestamp block.  castSecs is what `offset as u32` yields where the
\* cast is out of range (a negative offset): the language of the time leaves
\* that value undefined, so the caller chooses it.
timestamp_of(line1, castSecs) ==
    LET yy == OnSlice(line1, 18, 20, LAMBDA t : Unwrap(parse_i32(t)))
        dd == OnSlice(line1, 20, 23, LAMBDA t : Unwrap(parse_u32(t)))
        fr == OnSlice(line1, 23, 32, LAMBDA t : Unwrap(parse_f64(t)))
        year == 2000 + yy.v
        secs == IF fr.v.m < 0 THEN castSecs
                ELSE IF BelowOne(fr.v) THEN SecondsOfDay(fr.v)
                ELSE SECONDS_PER_DAY
    IN  IF ~IsOk(yy) \/ ~IsOk(dd) \/ ~IsOk(fr) THEN Panic
        \* UTC.yo panics on a day the year does not have
        ELSE IF dd.v < 1 \/ dd.v > DaysInYear(year) THEN Panic
        \* NaiveTime::from_num_seconds_from_midnight panics from 86400 on
        ELSE IF secs >= SECONDS_PER_DAY THEN Panic
        ELSE Ok([year |-> year, ordinal |-> dd.v, secs |-> secs])

\* line_checksum(line1) && line_checksum(line2): the second is evaluated
\* only where the first is true
valid_of(line1, line2) ==
    LET c1 == line_checksum(line1)
    IN  IF ~IsOk(c1) THEN Panic
        ELSE IF ~c1.v THEN Ok(FALSE)
        ELSE line_checksum(line2)

FieldNames ==
    << "satellite_number", "classification", "id_launch_year", "id_launch_number",
       "id_launch_piece", "timestamp", "mean_motion_d", "mean_motion_dd", "bstar",
       "set_number", "inclination", "right_ascension", "eccentricity", "perigree",
       "mean_anomaly", "mean_motion", "revolution_number", "valid" >>

\* the outcome of each field expression of the struct literal, in order
field_results(line1, line2, castSecs) ==
    << OnSlice(line1, 2, 7, LAMBDA t : Try(parse_i16(t))),
       OnSlice(line1, 8, 9, LAMBDA t : Ok(IF t = "U" THEN "Unclassified" ELSE "Other")),
       OnSlice(line1, 9, 11, LAMBDA t : Try(parse_i8(t))),
       OnSlice(line1, 11, 14, LAMBDA t : Try(parse_i16(t))),
       OnSlice(line1, 14, 17, LAMBDA t : Ok(Trim(t))),
       timestamp_of(line1, castSecs),
       OnSlice(line1, 33, 43, LAMBDA t : Try(MapTimes(parse_fixed(Trim(t)), 2))),
       OnSlice(line1, 44, 52, LAMBDA t : Try(MapTimes(parse_fixed(Trim(t)), 6))),
       OnSlice(line1, 53, 61, LAMBDA t : Try(parse_fixed(Trim(t)))),
       OnSlice(line1, 64, 68, LAMBDA t : Try(parse_i32(Trim(t)))),
       OnSlice(line2, 8, 16, LAMBDA t : Try(parse_f64(Trim(t)))),
       OnSlice(line2, 17, 25, LAMBDA t : Try(parse_f64(Trim(t)))),
       OnSlice(line2, 26, 33, LAMBDA t : Try(parse_fixed(Trim(t)))),
       OnSlice(line2, 34, 42, LAMBDA t : Try(parse_f64(Trim(t)))),
       OnSlice(line2, 43, 51, LAMBDA t : Try(parse_f64(Trim(t)))),
       OnSlice(line2, 52, 63, LAMBDA t : Try(parse_f64(Trim(t)))),
       OnSlice(line2, 63, 68, LAMBDA t : Try(parse_i32(Trim(t)))),
       valid_of(line1, line2) >>

\* the least element of a non-empty set of numbers
Least(S) == CHOOSE x \in S : \A y \in S : x <= y

\* Ok(tle) where every field expression succeeded; otherwise the first
\* failing one decides between Err(ParseError) and a panic
struct_of(name, fr) ==
    LET failed == {i \in DOMAIN fr : ~IsOk(fr[i])}
    IN  IF failed # {} THEN (IF fr[Least(failed)].kind = "Err" THEN Err ELSE Panic)
        ELSE Ok([name |-> name,
                 satellite_number |-> fr[1].v,
                 classification |-> fr[2].v,
                 id_launch_year |-> fr[3].v,
                 id_launch_number |-> fr[4].v,
                 id_launch_piece |-> fr[5].v,
                 timestamp |-> fr[6].v,
                 mean_motion_d |-> fr[7].v,
                 mean_motion_dd |-> fr[8].v,
                 bstar |-> fr[9].v,
                 set_number |-> fr[10].v,
                 inclination |-> fr[11].v,
                 right_ascension |-> fr[12].v,
                 eccentricity |-> fr[13].v,
                 perigree |-> fr[14].v,
                 mean_anomaly |-> fr[15].v,
                 mean_motion |-> fr[16].v,
                 revolution_number |-> fr[17].v,
                 valid |-> fr[18].v])

TLE_new(lines, castSecs) ==
    \* lines[0], lines[1], lines[2] index a Vec: fewer lines panic
    IF Len(lines) < 3 THEN Panic
    ELSE struct_of(lines[1], field_results(lines[2], lines[3], castSecs))

is_valid(tle) == tle.valid

(***************************************************************************)
(* parse_file (tle.rs) and main (main.rs).                                 *)
(***************************************************************************)
\* the smaller of two numbers
Min(a, b) == IF a <= b THEN a ELSE b

\* lines.chunks(3), each line trimmed and ended by a newline: the chunk's
\* text, which TLE::new splits into the same trimmed lines again
RECURSIVE trim_each(_)
trim_each(ls) ==
    IF Len(ls) = 0 THEN << >> ELSE << Trim(Head(ls)) >> \o trim_each(Tail(ls))

RECURSIVE chunks(_)
chunks(ls) ==
    IF Len(ls) = 0 THEN << >>
    ELSE LET k == Min(3, Len(ls))
         IN  << trim_each(SubSeq(ls, 1, k)) >> \o chunks(SubSeq(ls, k + 1, Len(ls)))

\* .filter(|t| t.is_ok()).map(|t| t.unwrap()) over the outcomes, in order
RECURSIVE ok_values(_)
ok_values(rs) ==
    IF Len(rs) = 0 THEN << >>
    ELSE (IF IsOk(rs[1]) THEN << rs[1].v >> ELSE << >>) \o ok_values(Tail(rs))

\* .map(|c| TLE::new(c)) over the chunks
RECURSIVE new_each(_, _)
new_each(cs, castSecs) ==
    IF Len(cs) = 0 THEN << >>
    ELSE << TLE_new(Head(cs), castSecs) >> \o new_each(Tail(cs), castSecs)

parse_file(f, castSecs) ==
    \* read_to_string failed: panic!("couldn't read TLE file")
    IF ~f.readable THEN Panic
    ELSE LET rs == new_each(chunks(f.lines), castSecs)
         IN  \* a panic inside TLE::new unwinds through the iterator chain
             IF \E i \in DOMAIN rs : rs[i].kind = "Panic" THEN Panic
             ELSE Ok(ok_values(rs))

\* tles.iter().find(|t| name == t.name), cloned, or the panic of main
find_satellite(ts, name) ==
    LET hits == {i \in DOMAIN ts : ts[i].name = name}
    IN  IF hits = {} THEN Panic ELSE Ok(ts[Least(hits)])

(***************************************************************************)
(* Bounded inputs.                                                         *)
(***************************************************************************)
\* every string over the alphabet A of at most n characters
RECURSIVE Strs(_, _)
Strs(A, n) ==
    IF n = 0 THEN {""}
    ELSE LET S == Strs(A, n - 1) IN S \cup {s \o c : s \in S, c \in A}

\* the longest mantissa of a generated compact field
MaxMant == 2
\* the longest free-form field text
MaxField == 3
\* the longest line handed to line_checksum on its own
MaxLine == 3

MantDigits == {"0", "1", "9"}
Mantissas == Strs(MantDigits, MaxMant) \ {""}
Signs == {"", "-"}
ExpSigns == {"+", "-"}

\* [-]d...d(+|-)d
CompactField(sg, mant, es, d) == sg \o mant \o es \o d
\* [-].d...d
DottedField(sg, mant) == sg \o "." \o mant

CompactFields ==
    {CompactField(sg, mant, es, d) : sg \in Signs, mant \in Mantissas, es \in ExpSigns, d \in Digits}
DottedFields == {DottedField(sg, mant) : sg \in Signs, mant \in Mantissas}
FieldTexts == CompactFields \cup DottedFields \cup Strs({"1", "-", "+", "."}, MaxField)

LineTexts == Strs({"0", "1", "7", "9", "-", "+", ".", " ", "A"}, MaxLine)

(***************************************************************************)
(* fix_string applied to one field text.                                   *)
(***************************************************************************)
InitFixString ==
    /\ field \in FieldTexts
    /\ fixed = NoRet
    /\ IdleSum /\ IdleTLE /\ IdleMain /\ IdleSat /\ IdlePipe /\ IdleLon

FixString ==
    /\ fixed.kind = "Pending"
    /\ fixed' = fix_string(field)
    /\ UNCHANGED << field, sumVars, tleVars, mainVars, satVars, pipeVars, lonVars >>

NextFixString == FixString

SpecFixString == InitFixString /\ [][NextFixString]_vars

(***************************************************************************)
(* line_checksum applied to one line.                                      *)
(***************************************************************************)
InitChecksum ==
    /\ line \in LineTexts
    /\ checksum = NoRet
    /\ IdleFix /\ IdleTLE /\ IdleMain /\ IdleSat /\ IdlePipe /\ IdleLon

LineChecksum ==
    /\ checksum.kind = "Pending"
    /\ checksum' = line_checksum(line)
    /\ UNCHANGED << line, fixVars, tleVars, mainVars, satVars, pipeVars, lonVars >>

NextChecksum == LineChecksum

SpecChecksum == InitChecksum /\ [][NextChecksum]_vars

(***************************************************************************)
(* C5.  line_checksum(line) is true exactly when the last character of the *)
(* line, read as a decimal digit, equals the sum modulo 10, over all the   *)
(* characters before it, of the digit's value for '0'-'9', 1 for each '-'  *)
(* and 0 for every other character.  The sum is stated here by counting    *)
(* the occurrences of each character.                                      *)
(***************************************************************************)
Occurrences(s, c) == Cardinality({i \in 1..Len(s) : CharAt(s, i) = c})

WeightedSum(s) ==
    1 * Occurrences(s, "1") + 2 * Occurrences(s, "2") + 3 * Occurrences(s, "3")
    + 4 * Occurrences(s, "4") + 5 * Occurrences(s, "5") + 6 * Occurrences(s, "6")
    + 7 * Occurrences(s, "7") + 8 * Occurrences(s, "8") + 9 * Occurrences(s, "9")
    + Occurrences(s, "-")

CheckDigitMatches(ln) ==
    /\ Len(ln) > 0
    /\ IsDigit(CharAt(ln, Len(ln)))
    /\ DigitVal(CharAt(ln, Len(ln))) = WeightedSum(SubSeq(ln, 1, Len(ln) - 1)) % 10

C5_ChecksumRule ==
    checksum.kind # "Pending" =>
        ((checksum.kind = "Ok" /\ checksum.v) <=> CheckDigitMatches(line))

\* a passing line whose sum wraps past 10 and counts a minus sign
C5_Witness ==
    /\ checksum.kind = "Ok" /\ checksum.v
    /\ Occurrences(line, "-") > 0
    /\ WeightedSum(SubSeq(line, 1, Len(line) - 1)) >= 10

(***************************************************************************)
(* C6.  fix_string turns a compact field [-]d...d(+|-)d into               *)
(* [-]0.d...de(+|-)d for both exponent signs and every exponent digit, and *)
(* gives a field starting with '.' or '-.' an explicit leading 0.          *)
(***************************************************************************)
C6_FixStringDecodes ==
    fixed.kind # "Pending" =>
        /\ \A sg \in Signs, mant \in Mantissas, es \in ExpSigns, d \in Digits :
              field = CompactField(sg, mant, es, d) =>
                  /\ fixed.kind = "Ok"
                  /\ fixed.v = sg \o "0." \o mant \o "e" \o es \o d
        /\ \A sg \in Signs, mant \in Mantissas :
              field = DottedField(sg, mant) =>
                  /\ fixed.kind = "Ok"
                  /\ fixed.v = sg \o "0." \o mant

(***************************************************************************)
(* Records handed to TLE::new: a fixture of the source tests, with at most *)
(* one field of each element line overwritten and with each line's last    *)
(* column set to the right check digit, a wrong digit or a letter, or the  *)
(* line cut short.                                                         *)
(***************************************************************************)
ISS_NAME == "ISS"
ISS_LINE1 == "1 25544U 98067A   06040.85138889  .00012260  00000-0  86027-4 0  3194"
ISS_LINE2 == "2 25544  51.6448 122.3522 0008835 257.3473 251.7436 15.74622749413094"

MOLNIYA_NAME == "MOLNIYA 1-81"
MOLNIYA_LINE1 == "1 21426U 91043A   15108.55037587 -.00000207  00000-0 -31134-2 0  9992"
MOLNIYA_LINE2 == "2 21426  63.2890 290.2925 7228326 283.8438  15.2252  2.00627254174658"

\* the line with the characters from 0-based column at on overwritten by text
Overwrite(ln, at, text) ==
    SubSeq(ln, 1, at) \o text \o SubSeq(ln, at + Len(text) + 1, Len(ln))

Edit(at, text) == [at |-> at, text |-> text]
NoEdit == Edit(0, "")

Line1Edits ==
    { NoEdit,
      Edit(2, "00000"), Edit(2, "32767"), Edit(2, "32768"), Edit(2, "40000"),
      Edit(2, "99999"), Edit(2, "2554X"),
      Edit(9, "00"), Edit(9, "99"), Edit(9, "9X"),
      Edit(11, "001"), Edit(11, "999"), Edit(11, "06X"),
      Edit(18, "00"), Edit(18, "99"), Edit(18, "X6"),
      Edit(20, "001"), Edit(20, "365"), Edit(20, "000"), Edit(20, "400"), Edit(20, "04X"),
      Edit(23, ".00000000"), Edit(23, ".99999999"), Edit(23, ".X5138889"),
      Edit(23, "1.0000000"), Edit(23, "-.5000000"),
      Edit(33, " .00000000"), Edit(33, "-.00012260"), Edit(33, " .0001226X"),
      Edit(33, "         -"), Edit(33, "          "),
      Edit(44, " 12345-3"), Edit(44, "-12345-3"), Edit(44, " 12345+3"),
      Edit(44, " 12345+0"), Edit(44, " 1234X-3"),
      Edit(53, " 11111-1"), Edit(53, "-86027+4"), Edit(53, " 86027+4"), Edit(53, "       -"),
      Edit(64, "   1"), Edit(64, "9999"), Edit(64, " 31X") }

Line2Edits ==
    { NoEdit,
      Edit(8, "  0.0000"), Edit(8, "180.0000"), Edit(8, "200.0000"), Edit(8, " 51.644X"),
      Edit(17, "  0.0000"), Edit(17, "12X.3522"),
      Edit(26, "0000000"), Edit(26, "9999999"), Edit(26, "-123456"), Edit(26, "00088X5"),
      Edit(26, "     -1"),
      Edit(34, "  0.0000"), Edit(34, "25X.3473"),
      Edit(43, "  0.0000"), Edit(43, "2X1.7436"),
      Edit(52, " 0.00000000"), Edit(52, " 1.00273791"), Edit(52, "-5.00000000"),
      Edit(52, "15.7462274X"),
      Edit(63, "00000"), Edit(63, "99999"), Edit(63, "4130X"), Edit(63, "     ") }

DigitChar(n) == CharAt("0123456789", n + 1)

\* the column an element line carries its check digit in (0-based)
CHECK_COLUMN == 68
\* the length a line is cut to by the "short" ending
ShortLen == 20

Endings == {"good", "bad", "letter", "short"}

\* the first 68 columns of ln, ended as asked
WithEnding(ln, ending) ==
    LET body == SubSeq(ln, 1, CHECK_COLUMN)
        sum == WeightedSum(body) % 10
    IN  CASE ending = "good" -> body \o DigitChar(sum)
          [] ending = "bad" -> body \o DigitChar((sum + 1) % 10)
          [] ending = "letter" -> body \o "X"
          [] ending = "short" -> SubSeq(ln, 1, ShortLen)

MakeRecord(fx, e1, e2, end1, end2) ==
    << fx[1],
       WithEnding(Overwrite(fx[2], e1.at, e1.text), end1),
       WithEnding(Overwrite(fx[3], e2.at, e2.text), end2) >>

ISS == << ISS_NAME, ISS_LINE1, ISS_LINE2 >>
MOLNIYA == << MOLNIYA_NAME, MOLNIYA_LINE1, MOLNIYA_LINE2 >>

\* the first fixture with an edit of each line, the second with an edit of one
Records ==
    { MakeRecord(ISS, e1, e2, end1, end2) :
        e1 \in Line1Edits, e2 \in Line2Edits, end1 \in Endings, end2 \in Endings }
    \cup { MakeRecord(MOLNIYA, e1, NoEdit, end1, end2) :
        e1 \in Line1Edits, end1 \in Endings, end2 \in Endings }
    \cup { MakeRecord(MOLNIYA, NoEdit, e2, end1, end2) :
        e2 \in Line2Edits, end1 \in Endings, end2 \in Endings }

\* records of fewer than three lines
Fragments == { << >>, << ISS_NAME >>, << ISS_NAME, ISS_LINE1 >> }

\* what an out-of-range `as u32` may yield: a second of the day, or not
CastChoices == {0, SECONDS_PER_DAY}

InitTLE ==
    /\ input \in Records \cup Fragments
    /\ parsed = NoRet
    /\ IdleFix /\ IdleSum /\ IdleMain /\ IdleSat /\ IdlePipe /\ IdleLon

NewTLE ==
    /\ parsed.kind = "Pending"
    /\ \E castSecs \in CastChoices : parsed' = TLE_new(input, castSecs)
    /\ UNCHANGED << input, fixVars, sumVars, mainVars, satVars, pipeVars, lonVars >>

NextTLE == NewTLE

Spec == InitTLE /\ [][NextTLE]_vars

(***************************************************************************)
(* The element-line format, stated on the text of the lines.               *)
(***************************************************************************)
LINE_LENGTH == 69

AllDigits(s) == Len(s) > 0 /\ \A i \in 1..Len(s) : IsDigit(CharAt(s, i))

\* the 0-based columns a..b-1 of ln, "" where the line is too short
Columns(ln, a, b) == IF b <= Len(ln) THEN SubSeq(ln, a + 1, b) ELSE ""

\* [-]digits(+|-)digit
IsCompact(s) ==
    LET body == IF StartsWith(s, "-") THEN SubSeq(s, 2, Len(s)) ELSE s
    IN  /\ Len(body) >= 3
        /\ AllDigits(SubSeq(body, 1, Len(body) - 2))
        /\ CharAt(body, Len(body) - 1) \in {"+", "-"}
        /\ IsDigit(CharAt(body, Len(body)))

\* [-].digits
IsDotted(s) ==
    LET body == IF StartsWith(s, "-") THEN SubSeq(s, 2, Len(s)) ELSE s
    IN  StartsWith(body, ".") /\ AllDigits(SubSeq(body, 2, Len(body)))

\* digits.digits
IsDecimal(s) ==
    LET dot == Find(s, ".")
    IN  /\ dot > 1
        /\ AllDigits(SubSeq(s, 1, dot - 1))
        /\ AllDigits(SubSeq(s, dot + 1, Len(s)))

\* the value a compact or dotted field writes: the digits after an assumed
\* decimal point, times ten to the signed exponent digit
FieldValue(s) ==
    LET neg == StartsWith(s, "-")
        body == IF neg THEN SubSeq(s, 2, Len(s)) ELSE s
        dotted == StartsWith(body, ".")
        mant == IF dotted THEN SubSeq(body, 2, Len(body)) ELSE SubSeq(body, 1, Len(body) - 2)
        expo == IF dotted THEN 0
                ELSE IF CharAt(body, Len(body) - 1) = "-"
                     THEN 0 - DigitVal(CharAt(body, Len(body)))
                     ELSE DigitVal(CharAt(body, Len(body)))
        mag == DigitsValue(mant)
    IN  Norm(IF neg THEN 0 - mag ELSE mag, expo - Len(mant))

\* the value a plain decimal field writes
DecimalValue(s) ==
    LET dot == Find(s, ".")
        frac == SubSeq(s, dot + 1, Len(s))
    IN  Norm(DigitsValue(SubSeq(s, 1, dot - 1) \o frac), 0 - Len(frac))

WellFormedLine1(ln) ==
    /\ Len(ln) = LINE_LENGTH
    /\ AllDigits(Columns(ln, 2, 7))
    /\ AllDigits(Columns(ln, 9, 11))
    /\ AllDigits(Columns(ln, 11, 14))
    /\ AllDigits(Columns(ln, 18, 20))
    /\ AllDigits(Columns(ln, 20, 23))
    /\ DigitsValue(Columns(ln, 20, 23)) \in 1..DaysInYear(2000 + DigitsValue(Columns(ln, 18, 20)))
    /\ IsDotted(Columns(ln, 23, 32))
    /\ IsDotted(Trim(Columns(ln, 33, 43)))
    /\ IsCompact(Trim(Columns(ln, 44, 52)))
    /\ IsCompact(Trim(Columns(ln, 53, 61)))
    /\ AllDigits(Trim(Columns(ln, 64, 68)))
    /\ CheckDigitMatches(ln)

WellFormedLine2(ln) ==
    /\ Len(ln) = LINE_LENGTH
    /\ IsDecimal(Trim(Columns(ln, 8, 16)))
    /\ IsDecimal(Trim(Columns(ln, 17, 25)))
    /\ AllDigits(Columns(ln, 26, 33))
    /\ IsDecimal(Trim(Columns(ln, 34, 42)))
    /\ IsDecimal(Trim(Columns(ln, 43, 51)))
    /\ IsDecimal(Trim(Columns(ln, 52, 63)))
    /\ AllDigits(Trim(Columns(ln, 63, 68)))
    /\ CheckDigitMatches(ln)

\* the numeric slices of a record, each decoded as its type
numeric_slices(line1, line2) ==
    << OnSlice(line1, 2, 7, LAMBDA t : parse_i16(t)),
       OnSlice(line1, 9, 11, LAMBDA t : parse_i8(t)),
       OnSlice(line1, 11, 14, LAMBDA t : parse_i16(t)),
       OnSlice(line1, 18, 20, LAMBDA t : parse_i32(t)),
       OnSlice(line1, 20, 23, LAMBDA t : parse_u32(t)),
       OnSlice(line1, 23, 32, LAMBDA t : parse_f64(t)),
       OnSlice(line1, 33, 43, LAMBDA t : parse_fixed(Trim(t))),
       OnSlice(line1, 44, 52, LAMBDA t : parse_fixed(Trim(t))),
       OnSlice(line1, 53, 61, LAMBDA t : parse_fixed(Trim(t))),
       OnSlice(line1, 64, 68, LAMBDA t : parse_i32(Trim(t))),
       OnSlice(line2, 8, 16, LAMBDA t : parse_f64(Trim(t))),
       OnSlice(line2, 17, 25, LAMBDA t : parse_f64(Trim(t))),
       OnSlice(line2, 26, 33, LAMBDA t : parse_fixed(Trim(t))),
       OnSlice(line2, 34, 42, LAMBDA t : parse_f64(Trim(t))),
       OnSlice(line2, 43, 51, LAMBDA t : parse_f64(Trim(t))),
       OnSlice(line2, 52, 63, LAMBDA t : parse_f64(Trim(t))),
       OnSlice(line2, 63, 68, LAMBDA t : parse_i32(Trim(t))) >>

\* every field expression before `valid` succeeds, whatever the cast yields
AllFieldsParse(line1, line2) ==
    \A c \in CastChoices :
        LET fr == field_results(line1, line2, c)
        IN  \A i \in 1..(Len(fr) - 1) : IsOk(fr[i])

SomeSliceUnparseable(line1, line2) ==
    LET ns == numeric_slices(line1, line2)
    IN  \E i \in DOMAIN ns : ~IsOk(ns[i])

Called == parsed.kind # "Pending"

(***************************************************************************)
(* C1.  For every 3-line record whose numeric fields all parse, TLE::new   *)
(* returns Ok, and is_valid() is true if and only if both element lines    *)
(* pass the checksum; a trailing character that differs from the computed  *)
(* checksum, a letter included, gives Ok with is_valid() false, never an   *)
(* Err and never a panic.                                                  *)
(***************************************************************************)
C1_ChecksumMismatchIsOk ==
    (Called /\ Len(input) = 3 /\ AllFieldsParse(input[2], input[3])) =>
        /\ parsed.kind = "Ok"
        /\ is_valid(parsed.v) <=> (CheckDigitMatches(input[2]) /\ CheckDigitMatches(input[3]))

(***************************************************************************)
(* C2.  TLE::new never panics on malformed numeric content: whenever a     *)
(* fixed-width slice of a full-length record cannot be parsed as its       *)
(* numeric type, the call returns Err(ParseError).                         *)
(***************************************************************************)
C2_MalformedGivesErr ==
    (/\ Called
     /\ Len(input) = 3
     /\ Len(input[2]) = LINE_LENGTH
     /\ Len(input[3]) = LINE_LENGTH
     /\ SomeSliceUnparseable(input[2], input[3])) =>
        parsed.kind = "Err"

(***************************************************************************)
(* C3.  For every record that satisfies the fixed-width format and carries *)
(* a correct check digit on both element lines, TLE::new returns Ok and    *)
(* is_valid() is true.                                                     *)
(***************************************************************************)
C3_WellFormedIsValid ==
    (Called /\ Len(input) = 3 /\ WellFormedLine1(input[2]) /\ WellFormedLine2(input[3])) =>
        (parsed.kind = "Ok" /\ is_valid(parsed.v))

(***************************************************************************)
(* C4.  For every successfully parsed record each numeric field of the TLE *)
(* equals the value written in its slice.  As the code has it, and as      *)
(* checked here: mean_motion_d is twice the first-derivative field and     *)
(* mean_motion_dd six times the second-derivative field; bstar equals the  *)
(* drag field, eccentricity is 0.<the seven digits>, and the integer and   *)
(* plain decimal fields equal their slices.                                *)
(***************************************************************************)
FieldsDecoded(kd, kdd) ==
    LET l1 == input[2]
        l2 == input[3]
        t == parsed.v
        md == Trim(Columns(l1, 33, 43))
        mdd == Trim(Columns(l1, 44, 52))
        bs == Trim(Columns(l1, 53, 61))
        Plain(text, v) == IsDecimal(Trim(text)) => v = DecimalValue(Trim(text))
        Whole(text, v) == AllDigits(Trim(text)) => v = DigitsValue(Trim(text))
    IN  /\ (IsDotted(md) \/ IsCompact(md)) => t.mean_motion_d = Times(FieldValue(md), kd)
        /\ (IsDotted(mdd) \/ IsCompact(mdd)) => t.mean_motion_dd = Times(FieldValue(mdd), kdd)
        /\ (IsDotted(bs) \/ IsCompact(bs)) => t.bstar = FieldValue(bs)
        /\ AllDigits(Columns(l2, 26, 33)) =>
              t.eccentricity = Norm(DigitsValue(Columns(l2, 26, 33)), -7)
        /\ Whole(Columns(l1, 2, 7), t.satellite_number)
        /\ Whole(Columns(l1, 9, 11), t.id_launch_year)
        /\ Whole(Columns(l1, 11, 14), t.id_launch_number)
        /\ Whole(Columns(l1, 64, 68), t.set_number)
        /\ Plain(Columns(l2, 8, 16), t.inclination)
        /\ Plain(Columns(l2, 17, 25), t.right_ascension)
        /\ Plain(Columns(l2, 34, 42), t.perigree)
        /\ Plain(Columns(l2, 43, 51), t.mean_anomaly)
        /\ Plain(Columns(l2, 52, 63), t.mean_motion)
        /\ Whole(Columns(l2, 63, 68), t.revolution_number)

\* the claim as stated: the derivative fields unscaled
C4_FieldsAsWritten == parsed.kind = "Ok" => FieldsDecoded(1, 1)

\* the claim as the code has it
C4_FieldsScaled == parsed.kind = "Ok" => FieldsDecoded(2, 6)

C4_Witness ==
    /\ parsed.kind = "Ok"
    /\ parsed.v.mean_motion_d.m # 0
    /\ parsed.v.mean_motion_dd.m # 0
    /\ parsed.v.bstar.m # 0
    /\ parsed.v.eccentricity.m # 0
    /\ IsCompact(Trim(Columns(input[2], 44, 52)))

(***************************************************************************)
(* C7.  Every TLE returned as Ok has eccentricity in [0, 1), mean motion   *)
(* strictly greater than 0 and inclination in [0, 180] degrees.            *)
(***************************************************************************)
\* v <= n for a whole number 0 <= n < 200
AtMost(v, n) ==
    IF v.m <= 0 THEN TRUE
    ELSE IF v.e >= 0 THEN (v.e <= 2 /\ v.m * Pow10(v.e) <= n)
    ELSE IF 0 - v.e >= 7 THEN TRUE
    ELSE v.m <= n * Pow10(0 - v.e)

C7_ElementsInRange ==
    parsed.kind = "Ok" =>
        /\ parsed.v.eccentricity.m >= 0
        /\ BelowOne(parsed.v.eccentricity)
        /\ parsed.v.mean_motion.m > 0
        /\ parsed.v.inclination.m >= 0
        /\ AtMost(parsed.v.inclination, 180)

(***************************************************************************)
(* main: the catalog is read and parsed, the satellite is looked up by     *)
(* name, and the movement command hands it to movement::calculate.         *)
(***************************************************************************)
\* the most records a generated catalog file holds
MaxRecords == 2

Indented(rec) == [i \in DOMAIN rec |-> "  " \o rec[i]]

\* records a catalog is made of: the two fixtures, one of them indented, a
\* record with a wrong check digit, one with an unparseable catalog number,
\* one ending in a letter and one with a short second line
CatalogRecords ==
    { ISS, MOLNIYA, Indented(MOLNIYA),
      MakeRecord(ISS, NoEdit, NoEdit, "bad", "good"),
      MakeRecord(ISS, Edit(2, "2554X"), NoEdit, "good", "good"),
      MakeRecord(ISS, NoEdit, NoEdit, "good", "letter"),
      MakeRecord(ISS, NoEdit, NoEdit, "good", "short") }

\* what follows the last whole record: nothing, a blank line, or the first
\* two lines of a record
CatalogTails == { << >>, << "" >>, << ISS_NAME, ISS_LINE1 >> }

RECURSIVE Catalogs(_)
Catalogs(n) ==
    IF n = 0 THEN { << >> }
    ELSE LET C == Catalogs(n - 1)
         IN  C \cup { c \o r : c \in { x \in C : Len(x) = 3 * (n - 1) }, r \in CatalogRecords }

CatalogFiles ==
    { [readable |-> rd, lines |-> c \o t] :
        rd \in BOOLEAN, c \in Catalogs(MaxRecords), t \in CatalogTails }

SatelliteNames == { ISS_NAME, MOLNIYA_NAME, "HST" }

InitMain ==
    /\ file \in CatalogFiles
    /\ tles = NoRet
    /\ satellite = NoRet
    /\ handed = NoRet
    /\ IdleFix /\ IdleSum /\ IdleTLE /\ IdleSat /\ IdlePipe /\ IdleLon

\* let tles = tle::parse_file(&mut file);
ParseFile ==
    /\ tles.kind = "Pending"
    /\ \E castSecs \in CastChoices : tles' = parse_file(file, castSecs)
    /\ UNCHANGED << file, satellite, handed, fixVars, sumVars, tleVars, satVars, pipeVars, lonVars >>

\* let satellite = match tles.iter().find(...) { ... }
FindSatellite ==
    /\ tles.kind = "Ok"
    /\ satellite.kind = "Pending"
    /\ \E name \in SatelliteNames : satellite' = find_satellite(tles.v, name)
    /\ UNCHANGED << file, tles, handed, fixVars, sumVars, tleVars, satVars, pipeVars, lonVars >>

\* if args.cmd_movement { movement::calculate(satellite, ...) }
RunMovement ==
    /\ satellite.kind = "Ok"
    /\ handed.kind = "Pending"
    /\ handed' = satellite
    /\ UNCHANGED << file, tles, satellite, fixVars, sumVars, tleVars, satVars, pipeVars, lonVars >>

NextMain == ParseFile \/ FindSatellite \/ RunMovement

SpecMain == InitMain /\ [][NextMain]_vars

(***************************************************************************)
(* C8.  Records whose checksum validation failed are dropped when the      *)
(* catalog is assembled: every TLE in the vector parse_file returns, and   *)
(* so every satellite main selects by name and hands to a calculate        *)
(* function, has is_valid() true.                                          *)
(***************************************************************************)
C8_CatalogHoldsValidOnly ==
    /\ tles.kind = "Ok" => \A i \in DOMAIN tles.v : is_valid(tles.v[i])
    /\ satellite.kind = "Ok" => is_valid(satellite.v)
    /\ handed.kind = "Ok" => is_valid(handed.v)

(***************************************************************************)
(* C9.  A malformed record never aborts the processing of a batch: for any *)
(* input text parse_file returns, in input order, exactly the records of   *)
(* the 3-line chunks that parse; a chunk that cannot be parsed is skipped. *)
(***************************************************************************)
\* the records of the groups of three lines that parse, in order
RECURSIVE ParsableRecords(_, _)
ParsableRecords(ls, castSecs) ==
    IF Len(ls) = 0 THEN << >>
    ELSE LET k == Min(3, Len(ls))
             r == TLE_new(trim_each(SubSeq(ls, 1, k)), castSecs)
         IN  (IF r.kind = "Ok" THEN << r.v >> ELSE << >>)
             \o ParsableRecords(SubSeq(ls, k + 1, Len(ls)), castSecs)

C9_BatchSurvivesBadRecord ==
    (tles.kind # "Pending" /\ file.readable) =>
        /\ tles.kind = "Ok"
        /\ \E castSecs \in CastChoices : tles.v = ParsableRecords(file.lines, castSecs)

(***************************************************************************)
(* Satellite: the derived quantities of satellite.rs.  Lengths and angles  *)
(* are whole numbers of a grid step, residuals whole numbers of 1e-14 (the *)
(* unit of the tighter tolerance), times whole days since the element      *)
(* epoch.  The closures n and e, which the source builds from sqrt, powers *)
(* and sin of the elements, are quadratics [c2, c1] fixed per element set; *)
(* outside -GridMax..GridMax a closure has no finite value.                *)
(***************************************************************************)
Some(v) == [kind |-> "Some", v |-> v]
None == [kind |-> "None", v |-> "none"]

Abs(x) == IF x < 0 THEN -x ELSE x
\* a / b to the nearest whole number, for b # 0
Quotient(a, b) ==
    IF b > 0 THEN (2 * a + b) \div (2 * b) ELSE (-2 * a - b) \div (-2 * b)

GridMax == 12
Grid == (-GridMax)..GridMax
Curve(c, x) == c.c2 * x * x + c.c1 * x
Slope(c, x) == 2 * c.c2 * x + c.c1

\* roots::SimpleConvergency { eps, max_iter }
EPS_AXIS == 1
EPS_ANOMALY == 100
MAX_ITER == 50
SimpleConvergency(eps, max_iter) == [eps |-> eps, max_iter |-> max_iter]
is_root_found(convergency, y) == Abs(y) < convergency.eps

\* x - f(x)/f'(x); a zero derivative or a step off the grid gives no finite
\* value, written as a point outside DOMAIN f
newton_step(x, f, d) ==
    IF d[x] = 0 THEN GridMax + 1 ELSE x - Quotient(f[x], d[x])

\* RootSolver: iterate x <- x - f(x)/f'(x) until |f(x)| < eps or the cap is
\* reached; the converged value, or a DidNotConverge failure
RECURSIVE newton_raphson_from(_, _, _, _, _)
newton_raphson_from(x, f, d, convergency, iter) ==
    IF x \notin DOMAIN f THEN Err
    ELSE IF is_root_found(convergency, f[x]) THEN Ok(x)
    ELSE IF iter >= convergency.max_iter THEN Err
    ELSE newton_raphson_from(newton_step(x, f, d), f, d, convergency, iter + 1)

find_root_newton_raphson(start, f, d, convergency) ==
    newton_raphson_from(start, f, d, convergency, 0)

\* Result::ok and Option::map
ok(r) == IF r.kind = "Ok" THEN Some(r.v) ELSE None
map(o, F(_)) == IF o.kind = "Some" THEN Some(F(o.v)) ELSE None

\* one residual unit of the closures, in units of 1e-14
RateStep == 40

\* Duration::num_nanoseconds: None when the nanoseconds overflow an i64,
\* which is beyond 106751 whole days
I64_MAX_DAYS == 106751
num_nanoseconds(days) == IF Abs(days) <= I64_MAX_DAYS THEN Some(days) ELSE None

semimajor_axis_ideal(sat) == sat.a_ideal

\* a value computed from the refined axis (and the time), kept as a term
Derived(name, a, days) == [quantity |-> name, a |-> a, days |-> days]

\* (1 - e^2)^(-1.5), for e^2 given in quarters: 1 at e^2 = 0, 8 at e^2 = 3/4
eccentricity_factor(sat) ==
    LET x == 4 \div (4 - sat.eccentricity_sq)
    IN  x * (CHOOSE r \in 0..x : r * r = x)
\* 1 - 1.5 sin^2 i in halves, for sin^2 i given in thirds: 2, 0 or -1
inclination_factor(sat) == 2 - sat.sin_sq_inclination
\* tmp of semimajor_axis_approx, in halves
tmp(sat) == eccentricity_factor(sat) * inclination_factor(sat)

\* n(a) = sqrt(mu / a^3) * (1 + 1.5 j2 (r/a)^2 tmp): the Kepler mean motion
\* sat.n plus the J2 term, whose size at tmp = 1/2 is sat.j2_term units (0
\* where it is under one unit, as for a very wide orbit)
n(sat, a) == Curve(sat.n, a) + sat.j2_term * tmp(sat)
\* 2 pi / period, which is the Kepler mean motion at the ideal axis
n_norad(sat) == Curve(sat.n, semimajor_axis_ideal(sat))

\* n(a) - n_norad with the J2 term left out
n_delta_kepler(sat) ==
    [a \in Grid |-> RateStep * (Curve(sat.n, a) - n_norad(sat))]
\* n(a) - n_norad and the derivative the source writes out for it
n_delta(sat) == [a \in Grid |-> RateStep * (n(sat, a) - n_norad(sat))]
n_deriv(sat) == [a \in Grid |-> RateStep * Slope(sat.n, a)]

semimajor_axis_approx(sat) ==
    LET convergency == SimpleConvergency(EPS_AXIS, MAX_ITER)
    IN  ok(find_root_newton_raphson(semimajor_axis_ideal(sat),
                                    n_delta(sat), n_deriv(sat), convergency))

distance_apogee_approx(sat) ==
    map(semimajor_axis_approx(sat),
        LAMBDA a : Derived("distance_apogee_approx", a, 0))

distance_perigee_approx(sat) ==
    map(semimajor_axis_approx(sat),
        LAMBDA a : Derived("distance_perigee_approx", a, 0))

semiminor_axis_approx(sat) ==
    map(semimajor_axis_approx(sat),
        LAMBDA a : Derived("semiminor_axis_approx", a, 0))

\* M = mean anomaly at the epoch + mean motion * days since the epoch
mean_anomaly_at(sat, days) == sat.mean_anomaly + sat.mean_motion * days
\* e(E) - M and its derivative
e_delta(sat, M) == [ei \in Grid |-> RateStep * (Curve(sat.e, ei) - M)]
e_deriv(sat) == [ei \in Grid |-> RateStep * Slope(sat.e, ei)]

eccentric_anomaly(sat, t) ==
    LET delta_t == num_nanoseconds(t)
    IN  IF delta_t.kind = "None" THEN Panic
        ELSE LET M == mean_anomaly_at(sat, delta_t.v)
                 convergency == SimpleConvergency(EPS_ANOMALY, MAX_ITER)
             IN  ok(find_root_newton_raphson(M, e_delta(sat, M), e_deriv(sat),
                                             convergency))

longitude_ascending_node(sat, t) ==
    LET delta_t == num_nanoseconds(t)
    IN  IF delta_t.kind = "None" THEN Panic
        ELSE map(semimajor_axis_approx(sat),
                 LAMBDA a : Derived("longitude_ascending_node", a, delta_t.v))

argument_periapsis(sat, t) ==
    LET delta_t == num_nanoseconds(t)
    IN  IF delta_t.kind = "None" THEN Panic
        ELSE map(semimajor_axis_approx(sat),
                 LAMBDA a : Derived("argument_periapsis", a, delta_t.v))

\* element sets and times
MaxAxis == 2
MaxDays == 2
Curves == [c2 : {0, 1}, c1 : {-1, 1, 2}]
\* e(E) = E - eccentricity * sin E is the identity for a circular orbit
Identity == [c2 |-> 0, c1 |-> 1]
Orbits ==
    {o \in [a_ideal : 1..MaxAxis, n : Curves, j2_term : {0, 1},
            eccentricity_sq : {0, 3}, sin_sq_inclination : {0, 2, 3},
            e : {c \in Curves : c.c1 > 0}, mean_anomaly : {0, 3},
            mean_motion : {1, 2}] :
        o.eccentricity_sq = 0 => o.e = Identity}
Days == ((-MaxDays)..MaxDays) \cup {-(I64_MAX_DAYS + 1), I64_MAX_DAYS + 1}

InitSat ==
    /\ orbit \in Orbits
    /\ time = 0
    /\ quantity = ""
    /\ value = NoRet
    /\ IdleFix /\ IdleSum /\ IdleTLE /\ IdleMain /\ IdlePipe /\ IdleLon

Untimed(name, result) ==
    /\ quantity = ""
    /\ quantity' = name
    /\ value' = result
    /\ UNCHANGED << orbit, time, fixVars, sumVars, tleVars, mainVars, pipeVars, lonVars >>

Timed(name, t, result) ==
    /\ quantity = ""
    /\ quantity' = name
    /\ time' = t
    /\ value' = result
    /\ UNCHANGED << orbit, fixVars, sumVars, tleVars, mainVars, pipeVars, lonVars >>

SemimajorAxisApprox == Untimed("semimajor_axis_approx", semimajor_axis_approx(orbit))
DistanceApogeeApprox == Untimed("distance_apogee_approx", distance_apogee_approx(orbit))
DistancePerigeeApprox == Untimed("distance_perigee_approx", distance_perigee_approx(orbit))
SemiminorAxisApprox == Untimed("semiminor_axis_approx", semiminor_axis_approx(orbit))
EccentricAnomaly ==
    \E t \in Days : Timed("eccentric_anomaly", t, eccentric_anomaly(orbit, t))
LongitudeAscendingNode ==
    \E t \in Days :
        Timed("longitude_ascending_node", t, longitude_ascending_node(orbit, t))
ArgumentPeriapsis ==
    \E t \in Days : Timed("argument_periapsis", t, argument_periapsis(orbit, t))

NextSat ==
    \/ SemimajorAxisApprox
    \/ DistanceApogeeApprox
    \/ DistancePerigeeApprox
    \/ SemiminorAxisApprox
    \/ EccentricAnomaly
    \/ LongitudeAscendingNode
    \/ ArgumentPeriapsis

SpecSat == InitSat /\ [][NextSat]_vars

(***************************************************************************)
(* C10.  Solver non-convergence is always reported as absence, never as a  *)
(* default value: semimajor_axis_approx and eccentric_anomaly return       *)
(* Some(x) only when the Newton-Raphson iteration stopped at x with        *)
(* |f(x)| below its tolerance within the 50-iteration cap and return None  *)
(* otherwise, and the five derived approximations return None exactly      *)
(* when semimajor_axis_approx returns None.                                *)
(***************************************************************************)
\* x0 .. x50 of the iteration from start; an iterate off the grid stays put
RECURSIVE Iterates(_, _, _, _)
Iterates(k, start, f, d) ==
    IF k = 0 THEN << start >>
    ELSE LET xs == Iterates(k - 1, start, f, d)
             x == xs[k]
         IN  Append(xs, IF x \in Grid THEN newton_step(x, f, d) ELSE x)

BelowTolerance(x, f, eps) == x \in Grid /\ Abs(f[x]) < eps

\* the iteration first meets the tolerance at x, after at most 50 steps
StoppedAt(x, start, f, d, eps) ==
    LET xs == Iterates(MAX_ITER, start, f, d)
    IN  \E k \in 1..(MAX_ITER + 1) :
            /\ xs[k] = x
            /\ BelowTolerance(x, f, eps)
            /\ \A j \in 1..(k - 1) : ~BelowTolerance(xs[j], f, eps)

SomeOnlyWhenStopped(start, f, d, eps) ==
    /\ value.kind \in {"Some", "None"}
    /\ value.kind = "Some" => StoppedAt(value.v, start, f, d, eps)
    /\ value.kind = "None" => \A x \in Grid : ~StoppedAt(x, start, f, d, eps)

DerivedNames ==
    {"distance_apogee_approx", "distance_perigee_approx", "semiminor_axis_approx",
     "longitude_ascending_node", "argument_periapsis"}

ReportedAsAbsence ==
    /\ quantity = "semimajor_axis_approx" =>
           SomeOnlyWhenStopped(semimajor_axis_ideal(orbit), n_delta(orbit),
                               n_deriv(orbit), EPS_AXIS)
    /\ quantity = "eccentric_anomaly" =>
           LET M == mean_anomaly_at(orbit, time)
           IN  SomeOnlyWhenStopped(M, e_delta(orbit, M), e_deriv(orbit), EPS_ANOMALY)
    /\ quantity \in DerivedNames =>
           /\ value.kind \in {"Some", "None"}
           /\ value.kind = "None" <=> semimajor_axis_approx(orbit).kind = "None"

C10_NonConvergenceIsAbsence == quantity # "" => ReportedAsAbsence

\* the same for times whose distance from the epoch fits num_nanoseconds
C10_AbsenceWithinNanosecondRange ==
    (quantity # "" /\ Abs(time) <= I64_MAX_DAYS) => ReportedAsAbsence

(***************************************************************************)
(* calculate: the sampling pipeline of movement.rs, track.rs and           *)
(* horizon.rs.  Instants are whole seconds since 2000-01-01T00:00:00Z.  A  *)
(* Duration is a signed 64-bit count of seconds, kept as a sign and the    *)
(* eight base-256 digits of its magnitude, most significant first, so that *)
(* counts beyond 32 bits reach the cast to i32 with their true value.      *)
(* The satellite's quantities are those of the Satellite model above, for  *)
(* the whole day since the epoch the instant falls in.  Angles of the      *)
(* Greenwich meridian are whole micro-degrees.                             *)
(***************************************************************************)
BYTE == 256
Bytes(x) ==
    << 0, 0, 0, 0, x \div (BYTE * BYTE * BYTE), (x \div (BYTE * BYTE)) % BYTE,
       (x \div BYTE) % BYTE, x % BYTE >>
\* Duration::seconds
seconds(x) == [neg |-> x < 0, mag |-> Bytes(Abs(x))]
IsZero(mag) == \A i \in DOMAIN mag : mag[i] = 0

\* mag / d digit by digit, for 0 < d < 2^22
RECURSIVE DivBytes(_, _, _, _)
DivBytes(mag, d, i, rem) ==
    IF i > Len(mag) THEN << >>
    ELSE LET cur == rem * BYTE + mag[i]
         IN  << cur \div d >> \o DivBytes(mag, d, i + 1, cur % d)

\* i64 / i64, which rounds toward zero, for a divisor that is not 0
i64_div(w, d) ==
    LET q == DivBytes(w.mag, Abs(d), 1, 0)
    IN  [neg |-> (w.neg # (d < 0)) /\ ~IsZero(q), mag |-> q]

\* `as i32`: the low 32 bits, read as two's complement
as_i32(w) ==
    LET k == Len(w.mag)
        top == IF w.mag[k - 3] >= BYTE \div 2 THEN w.mag[k - 3] - BYTE
               ELSE w.mag[k - 3]
        low == ((top * BYTE + w.mag[k - 2]) * BYTE + w.mag[k - 1]) * BYTE + w.mag[k]
    IN  IF ~w.neg \/ low = I32_MIN THEN low ELSE -low

\* let steps = 1 + (end.sub(start).num_seconds() / stepping.num_seconds()) as i32
\* span is end.sub(start); the division panics on a zero step in every build,
\* the addition overflows at i32::MAX, which panics where overflow checks are
\* compiled in and wraps where they are not
steps_of(span, stepping, overflow_checks) ==
    IF stepping = 0 THEN Panic
    ELSE LET quotient == as_i32(i64_div(span, stepping))
         IN  IF quotient < I32_MAX THEN Ok(1 + quotient)
             ELSE IF overflow_checks THEN Panic
             ELSE Ok(I32_MIN)

\* UTC.yo(y, 1) at midnight, and DateTime::year
FirstYear == 2000
LastYear == 2008
RECURSIVE days_before_year(_)
days_before_year(y) ==
    IF y <= FirstYear THEN 0 ELSE days_before_year(y - 1) + DaysInYear(y - 1)
year_start(y) == SECONDS_PER_DAY * days_before_year(y)
year(t) ==
    CHOOSE y \in FirstYear..LastYear : year_start(y) <= t /\ t < year_start(y + 1)

\* f64 % f64 keeps the sign of the dividend
Rem(a, b) == IF a >= 0 THEN a % b ELSE -((-a) % b)

\* body::EARTH: lambda = 99.281 degrees, we = 360.98564735 degrees a day, of
\* which the part beyond whole turns is 0.985647 a day and 0.004178074 a second
FULL_TURN == 360000000
EARTH_LAMBDA == 99281000
WE_DAY == 985647
WE_SECOND == 4178
WE_SECOND_MILLI == 74
\* (body.lambda + (start_epoch + delta_t_epoch) * body.we) % 360.0, where
\* start_epoch + delta_t_epoch is the time since the first instant of the
\* calendar year of start
lambda_g(start, t) ==
    LET since == t - year_start(year(start))
        d == since \div SECONDS_PER_DAY
        r == since % SECONDS_PER_DAY
    IN  Rem(EARTH_LAMBDA + d * WE_DAY + r * WE_SECOND + (r * WE_SECOND_MILLI) \div 1000,
            FULL_TURN)


\* Satellite::true_anomaly and the radius a (1 - e^2) / (1 + e cos v), kept
\* as terms over what they are computed from
true_anomaly(sat, ea) == [quantity |-> "true_anomaly", ea |-> ea]
r_v(sat, a, v) == [quantity |-> "r_v", a |-> a, v |-> v]
days_since_epoch(sat, t) == (t - sat.timestamp) \div SECONDS_PER_DAY

\* let time = start + (stepping * i)
sample_time_fixed(start, stepping, i) == start
sample_time(start, stepping, i) == start + stepping * i

\* the closure of movement::calculate for one time
movement_sample(sat, a, t) ==
    LET e == eccentric_anomaly(sat.orbit, days_since_epoch(sat, t))
    IN  IF e.kind # "Some" THEN Panic
        ELSE Ok([timestamp |-> t,
                 angle |-> true_anomaly(sat, e.v),
                 radius |-> r_v(sat, a, true_anomaly(sat, e.v))])

\* the closure of track::calculate for one time; theta and lambda, which
\* are computed from the fields kept here, are left out
track_sample(sat, a, start, t) ==
    LET days == days_since_epoch(sat, t)
        e == eccentric_anomaly(sat.orbit, days)
        omega_big == longitude_ascending_node(sat.orbit, days)
        omega_small == argument_periapsis(sat.orbit, days)
    IN  IF e.kind # "Some" \/ omega_big.kind # "Some" \/ omega_small.kind # "Some"
        THEN Panic
        ELSE Ok([timestamp |-> t,
                 real_anomaly |-> true_anomaly(sat, e.v),
                 radius |-> r_v(sat, a, true_anomaly(sat, e.v)),
                 longitude_ascending_node |-> omega_big.v,
                 argument_periapsis |-> omega_small.v,
                 lambda_g |-> lambda_g(start, t)])

\* f64 values that a division can produce: a number, an infinity or NaN
Finite(v) == [class |-> "finite", v |-> v]
Infinite(sign) == [class |-> "infinite", v |-> sign]
NaN == [class |-> "nan", v |-> 0]
Sign(x) == IF x > 0 THEN 1 ELSE IF x < 0 THEN -1 ELSE 0
\* x / y on f64
fdiv(x, y) ==
    IF y # 0 THEN Finite(x \div y)
    ELSE IF x = 0 THEN NaN ELSE Infinite(Sign(x))
\* y.atan2(x) in degrees, to the nearest eighth of a turn
atan2(y, x) ==
    IF y.class = "nan" \/ x.class = "nan" THEN NaN
    ELSE LET sy == IF x.class = "infinite" /\ y.class = "finite" THEN 0
                   ELSE Sign(y.v)
             sx == IF y.class = "infinite" /\ x.class = "finite" THEN 0
                   ELSE Sign(x.v)
         IN  Finite(IF sy = 0 THEN (IF sx < 0 THEN 180 ELSE 0)
                    ELSE sy * (90 - 45 * sx))

\* The geometry of satellite and station, which horizon::calculate computes
\* with sin, cos, acos and asin: the sky is a table with one entry for each
\* sector of the Greenwich angle, giving the elevation in degrees, sin(beta)
\* and the numerators of alpha_sin and alpha_cos
look(sky, greenwich) ==
    sky[1 + (greenwich % FULL_TURN) \div (FULL_TURN \div Len(sky))]
\* (0.5 * PI - theta_ground).sin(), which is 0.0 at the north pole
colatitude_sin(station) == IF station.latitude = 90 THEN 0 ELSE 1

\* the closure of horizon::calculate for one time
horizon_sample(sat, a, start, t, station, sky) ==
    LET common == track_sample(sat, a, start, t)
    IN  IF common.kind # "Ok" THEN Panic
        ELSE LET geometry == look(sky, common.v.lambda_g)
                 alpha_sin == fdiv(geometry.east, geometry.beta_sin)
                 alpha_cos == fdiv(geometry.north,
                                   colatitude_sin(station) * geometry.beta_sin)
             IN  Ok([timestamp |-> t,
                     real_anomaly |-> common.v.real_anomaly,
                     radius |-> common.v.radius,
                     longitude_ascending_node |-> common.v.longitude_ascending_node,
                     argument_periapsis |-> common.v.argument_periapsis,
                     lambda_g |-> common.v.lambda_g,
                     azimuth |-> atan2(alpha_sin, alpha_cos),
                     elevation |-> geometry.elevation])

\* .filter(|s| s.elevation > -3.0)
MIN_ELEVATION == -3
above_horizon_or_on_it(s) == s.elevation >= MIN_ELEVATION
above_horizon(s) == s.elevation > MIN_ELEVATION

\* what an invocation leaves behind: whether it returned or panicked, the
\* samples its closure computed, the samples it collected and what it wrote
Aborted ==
    [kind |-> "Panic", computed |-> << >>, samples |-> << >>, written |-> None]
Returned(computed, samples, output) ==
    [kind |-> "Ok", computed |-> computed, samples |-> samples,
     written |-> IF output THEN Some(samples) ELSE None]
AllOk(rs) == \A i \in DOMAIN rs : rs[i].kind = "Ok"
Values(rs) == [i \in DOMAIN rs |-> rs[i].v]

movement_calculate(sat, start, span, stepping, output, overflow_checks) ==
    LET steps == steps_of(span, stepping, overflow_checks)
        a == semimajor_axis_approx(sat.orbit)
    IN  IF steps.kind # "Ok" \/ a.kind # "Some" THEN Aborted
        ELSE LET rs == [i \in 1..steps.v |->
                            movement_sample(sat, a.v,
                                            sample_time(start, stepping, i - 1))]
             IN  IF AllOk(rs) THEN Returned(Values(rs), Values(rs), output)
                 ELSE Aborted

track_calculate(sat, start, span, stepping, output, overflow_checks) ==
    LET steps == steps_of(span, stepping, overflow_checks)
        a == semimajor_axis_approx(sat.orbit)
    IN  IF steps.kind # "Ok" \/ a.kind # "Some" THEN Aborted
        ELSE LET rs == [i \in 1..steps.v |->
                            track_sample(sat, a.v, start,
                                         sample_time(start, stepping, i - 1))]
             IN  IF AllOk(rs) THEN Returned(Values(rs), Values(rs), output)
                 ELSE Aborted

horizon_calculate(sat, start, span, stepping, output, station, sky, overflow_checks) ==
    LET steps == steps_of(span, stepping, overflow_checks)
        a == semimajor_axis_approx(sat.orbit)
    IN  IF steps.kind # "Ok" \/ a.kind # "Some" THEN Aborted
        ELSE LET rs == [i \in 1..steps.v |->
                            horizon_sample(sat, a.v, start,
                                           sample_time(start, stepping, i - 1),
                                           station, sky)]
             IN  IF AllOk(rs)
                 THEN Returned(Values(rs), SelectSeq(Values(rs), above_horizon),
                               output)
                 ELSE Aborted


\* satellites, stations, skies and ranges
NewYear == year_start(2006)
\* the element epoch: noon of the last day of 2005
Epoch == NewYear - SECONDS_PER_DAY \div 2
Steady ==
    [a_ideal |-> 1, n |-> [c2 |-> 0, c1 |-> -1], j2_term |-> 1,
     eccentricity_sq |-> 0, sin_sq_inclination |-> 0, e |-> Identity,
     mean_anomaly |-> 3, mean_motion |-> 2]
\* its axis does not converge
NoAxis == [Steady EXCEPT !.eccentricity_sq = 3]
\* its eccentric anomaly does not converge on the third day after the epoch
NoAnomaly ==
    [Steady EXCEPT !.eccentricity_sq = 3, !.sin_sq_inclination = 2,
                   !.e = [c2 |-> 1, c1 |-> 1]]
Satellites == [orbit : {Steady, NoAxis, NoAnomaly}, timestamp : {Epoch}]

Visible == [elevation |-> 10, beta_sin |-> 1, east |-> 1, north |-> 1]
AtThreshold == [Visible EXCEPT !.elevation = MIN_ELEVATION]
Below == [Visible EXCEPT !.elevation = MIN_ELEVATION - 1]
\* the satellite in the zenith of the station: beta = 0
Overhead == [elevation |-> 90, beta_sin |-> 0, east |-> 0, north |-> 0]
Skies ==
    { << Visible, Visible, Below, AtThreshold >>,
      << Visible, Overhead, Visible, Below >>,
      << Visible, Visible, Visible, Visible >> }
Stations == [latitude : {52, 90}]
Jobs ==
    [satellite : Satellites, station : Stations, sky : Skies, output : BOOLEAN]

MaxSpanDays == 2
Drift == 100
QuarterDay == SECONDS_PER_DAY \div 4
DayRanges ==
    [start : {NewYear - SECONDS_PER_DAY, NewYear, NewYear + SECONDS_PER_DAY},
     span : {seconds(k * SECONDS_PER_DAY + r) :
                 k \in (-MaxSpanDays)..MaxSpanDays, r \in {-Drift, 0, Drift}},
     stepping : {SECONDS_PER_DAY, QuarterDay, 0, -SECONDS_PER_DAY}]
\* 2^31 and 2^32 + 2 seconds
TwoTo31 == [neg |-> FALSE, mag |-> << 0, 0, 0, 0, BYTE \div 2, 0, 0, 0 >>]
TwoTo32Plus2 == [neg |-> FALSE, mag |-> << 0, 0, 0, 1, 0, 0, 0, 2 >>]
SecondRanges ==
    [start : {NewYear},
     span : {seconds(3), seconds(-3), seconds(I32_MAX), TwoTo31, TwoTo32Plus2},
     stepping : {1, -1}]
Ranges == DayRanges \cup SecondRanges

InitPipe ==
    /\ job \in Jobs
    /\ runs = << >>
    /\ IdleFix /\ IdleSum /\ IdleTLE /\ IdleMain /\ IdleSat /\ IdleLon

\* one invocation, recorded with its range
Invoke(mode, r, result, most) ==
    /\ Len(runs) < most
    /\ runs' = Append(runs, [mode |-> mode, start |-> r.start, span |-> r.span,
                             stepping |-> r.stepping, result |-> result])
    /\ UNCHANGED << job, fixVars, sumVars, tleVars, mainVars, satVars, lonVars >>

CalculateMovement ==
    \E r \in Ranges, overflow_checks \in BOOLEAN :
        Invoke("movement", r,
               movement_calculate(job.satellite, r.start, r.span, r.stepping,
                                  job.output, overflow_checks), 1)
CalculateTrack ==
    \E r \in Ranges, overflow_checks \in BOOLEAN :
        Invoke("track", r,
               track_calculate(job.satellite, r.start, r.span, r.stepping,
                               job.output, overflow_checks), 1)
CalculateHorizon ==
    \E r \in Ranges, overflow_checks \in BOOLEAN :
        Invoke("horizon", r,
               horizon_calculate(job.satellite, r.start, r.span, r.stepping,
                                 job.output, job.station, job.sky,
                                 overflow_checks), 1)

NextPipe == CalculateMovement \/ CalculateTrack \/ CalculateHorizon

SpecPipe == InitPipe /\ [][NextPipe]_vars


(***************************************************************************)
(* C11.  For every start, end >= start and step > 0, an invocation that    *)
(* returns has computed exactly 1 + floor((end - start) / step) samples,   *)
(* the i-th (i from 0) at start + i * step, for every count the range can  *)
(* produce, including counts that do not fit a 32-bit signed integer.      *)
(***************************************************************************)
ValidRange(run) == ~run.span.neg /\ run.stepping > 0

CountAsSpecified(run) ==
    LET computed == run.result.computed
    IN  /\ Len(computed) >= 1
        /\ i64_div(run.span, run.stepping).mag = Bytes(Len(computed) - 1)
        /\ \A i \in DOMAIN computed :
               computed[i].timestamp = run.start + (i - 1) * run.stepping

C11_SampleCount ==
    \A k \in DOMAIN runs :
        (ValidRange(runs[k]) /\ runs[k].result.kind = "Ok") =>
            CountAsSpecified(runs[k])


(***************************************************************************)
(* C12.  For a valid range and step, the samples an invocation produces    *)
(* have strictly increasing timestamps.  In the ground-track and movement  *)
(* modes consecutive samples are exactly one step apart; in the horizon    *)
(* mode that holds of the samples before the visibility filter, and the    *)
(* samples left after it are a positive whole number of steps apart.       *)
(***************************************************************************)
Gap(samples, i) == samples[i + 1].timestamp - samples[i].timestamp

OneStepApart(samples, stepping) ==
    \A i \in 1..(Len(samples) - 1) : Gap(samples, i) = stepping

WholeStepsApart(samples, stepping) ==
    \A i \in 1..(Len(samples) - 1) :
        Gap(samples, i) > 0 /\ Gap(samples, i) % stepping = 0

C12_SpacedByWholeSteps ==
    \A k \in DOMAIN runs :
        (ValidRange(runs[k]) /\ runs[k].result.kind = "Ok") =>
            IF runs[k].mode = "horizon"
            THEN /\ OneStepApart(runs[k].result.computed, runs[k].stepping)
                 /\ WholeStepsApart(runs[k].result.samples, runs[k].stepping)
            ELSE OneStepApart(runs[k].result.samples, runs[k].stepping)

\* a horizon invocation whose filter dropped samples between two it kept
C12_Witness ==
    \E k \in DOMAIN runs :
        /\ ValidRange(runs[k]) /\ runs[k].result.kind = "Ok"
        /\ runs[k].mode = "horizon"
        /\ \E i \in 1..(Len(runs[k].result.samples) - 1) :
               Gap(runs[k].result.samples, i) > runs[k].stepping

\* C12 as stated: in every mode, the horizon mode after its filter included,
\* consecutive samples are exactly one step apart
C12_EquallySpaced ==
    \A k \in DOMAIN runs :
        (ValidRange(runs[k]) /\ runs[k].result.kind = "Ok") =>
            OneStepApart(runs[k].result.samples, runs[k].stepping)


(***************************************************************************)
(* C13.  When the time range is invalid (end earlier than start, or a step *)
(* that is zero or negative), the invocation aborts before any sample is   *)
(* produced: no sample is computed and nothing is written to the output.   *)
(***************************************************************************)
C13_InvalidRangeAborts ==
    \A k \in DOMAIN runs :
        ~ValidRange(runs[k]) =>
            /\ runs[k].result.kind = "Panic"
            /\ runs[k].result.computed = << >>
            /\ runs[k].result.written = None

(***************************************************************************)
(* C14.  A solver failure at one timestep affects only that timestep: of a *)
(* valid range, every timestep at which the refined axis and the eccentric *)
(* anomaly converge has its sample computed, whatever happens at the other *)
(* timesteps, and a timestep at which one of them fails has none.          *)
(***************************************************************************)
\* the number of the last timestep of a range whose count is small
LastStep(run) == as_i32(i64_div(run.span, run.stepping))
SmallCount(run) ==
    /\ i64_div(run.span, run.stepping).mag = Bytes(LastStep(run))
    /\ LastStep(run) <= 4 * MaxSpanDays + 4

Solved(sat, t) ==
    /\ semimajor_axis_approx(sat.orbit).kind = "Some"
    /\ eccentric_anomaly(sat.orbit, days_since_epoch(sat, t)).kind = "Some"

C14_FailureStaysLocal ==
    \A k \in DOMAIN runs :
        (ValidRange(runs[k]) /\ SmallCount(runs[k])) =>
            \A i \in 0..LastStep(runs[k]) :
                LET t == runs[k].start + i * runs[k].stepping
                IN  Solved(job.satellite, t) <=>
                        \E j \in DOMAIN runs[k].result.computed :
                            runs[k].result.computed[j].timestamp = t


(***************************************************************************)
(* C15.  The horizon mode emits exactly the computed samples whose         *)
(* elevation is strictly greater than -3 degrees, in their original order, *)
(* and drops all others; the ground-track mode emits every computed        *)
(* sample.                                                                 *)
(***************************************************************************)
StrictlyAboveMinus3(s) == s.elevation > -3

C15_VisibilityFilter ==
    \A k \in DOMAIN runs :
        runs[k].result.kind = "Ok" =>
            /\ runs[k].mode = "horizon" =>
                   runs[k].result.samples =
                       SelectSeq(runs[k].result.computed, StrictlyAboveMinus3)
            /\ runs[k].mode = "track" =>
                   runs[k].result.samples = runs[k].result.computed

\* a horizon invocation that computed a sample at exactly -3 degrees and
\* dropped it, and emitted another
C15_Witness ==
    \E k \in DOMAIN runs :
        /\ runs[k].mode = "horizon" /\ runs[k].result.kind = "Ok"
        /\ \E i \in DOMAIN runs[k].result.computed :
               /\ runs[k].result.computed[i].elevation = -3
               /\ \A j \in DOMAIN runs[k].result.samples :
                      runs[k].result.samples[j] # runs[k].result.computed[i]
        /\ runs[k].result.samples # << >>

(***************************************************************************)
(* C16.  Degenerate station geometry is detected and reported: a horizon   *)
(* invocation that meets a central angle with sin(beta) = 0, or whose      *)
(* station lies at a pole, does not return normally, and no emitted sample *)
(* carries an azimuth that is NaN or infinite.                             *)
(***************************************************************************)
DegenerateAt(s) ==
    \/ look(job.sky, s.lambda_g).beta_sin = 0
    \/ colatitude_sin(job.station) = 0

C16_DegenerateGeometryReported ==
    \A k \in DOMAIN runs :
        (runs[k].mode = "horizon" /\ runs[k].result.kind = "Ok") =>
            /\ \A i \in DOMAIN runs[k].result.computed :
                   ~DegenerateAt(runs[k].result.computed[i])
            /\ \A i \in DOMAIN runs[k].result.samples :
                   runs[k].result.samples[i].azimuth.class = "finite"

(***************************************************************************)
(* Two invocations over the same satellite, station and output, with       *)
(* ranges that overlap and start on either side of New Year.               *)
(***************************************************************************)
RerunRanges ==
    [start : {NewYear - SECONDS_PER_DAY, NewYear},
     span : {seconds(MaxSpanDays * SECONDS_PER_DAY)},
     stepping : {SECONDS_PER_DAY, QuarterDay}]

RerunMovement ==
    \E r \in RerunRanges, overflow_checks \in BOOLEAN :
        Invoke("movement", r,
               movement_calculate(job.satellite, r.start, r.span, r.stepping,
                                  job.output, overflow_checks), 2)
RerunTrack ==
    \E r \in RerunRanges, overflow_checks \in BOOLEAN :
        Invoke("track", r,
               track_calculate(job.satellite, r.start, r.span, r.stepping,
                               job.output, overflow_checks), 2)
RerunHorizon ==
    \E r \in RerunRanges, overflow_checks \in BOOLEAN :
        Invoke("horizon", r,
               horizon_calculate(job.satellite, r.start, r.span, r.stepping,
                                 job.output, job.station, job.sky,
                                 overflow_checks), 2)

NextRerun == RerunMovement \/ RerunTrack \/ RerunHorizon

SpecRerun == InitPipe /\ [][NextRerun]_vars

(***************************************************************************)
(* C17.  The sample computed for a timestamp t depends only on t, the      *)
(* satellite and the station: two invocations of the same mode over the    *)
(* same satellite and station whose ranges both contain t compute          *)
(* identical samples for t, also when one range starts in the previous     *)
(* calendar year.                                                          *)
(***************************************************************************)
C17_SampleDependsOnTimeOnly ==
    \A k1 \in DOMAIN runs, k2 \in DOMAIN runs :
        runs[k1].mode = runs[k2].mode =>
            \A i1 \in DOMAIN runs[k1].result.computed,
               i2 \in DOMAIN runs[k2].result.computed :
                runs[k1].result.computed[i1].timestamp =
                    runs[k2].result.computed[i2].timestamp
                => runs[k1].result.computed[i1] = runs[k2].result.computed[i2]


(***************************************************************************)
(* line_checksum and TLE::new applied to a record in which one digit of    *)
(* one element line, other than its check digit, is replaced by another    *)
(* digit.  line keeps the element line as it was before the replacement.   *)
(***************************************************************************)
FlipRecords ==
    { MakeRecord(fx, NoEdit, NoEdit, end1, end2) :
        fx \in {ISS, MOLNIYA}, end1 \in {"good", "bad"}, end2 \in {"good", "bad"} }

InitFlip ==
    /\ input \in FlipRecords
    /\ parsed = NoRet
    /\ line = ""
    /\ checksum = NoRet
    /\ IdleFix /\ IdleMain /\ IdleSat /\ IdlePipe /\ IdleLon

FlipDigit ==
    /\ checksum.kind = "Pending"
    /\ \E k \in {2, 3}, col \in 0..(CHECK_COLUMN - 1), d \in 0..9,
          castSecs \in CastChoices :
           /\ IsDigit(CharAt(input[k], col + 1))
           /\ DigitVal(CharAt(input[k], col + 1)) # d
           \* the ten digits of a mean motion of 10 rev/day or more are one
           \* integer of DigitsValue, which holds them below 2 * 10^9 only
           /\ (k = 3 /\ col = 52) => d < 2
           /\ line' = input[k]
           /\ input' = [input EXCEPT ![k] = Overwrite(input[k], col, DigitChar(d))]
           /\ checksum' = line_checksum(input'[k])
           /\ parsed' = TLE_new(input', castSecs)
    /\ UNCHANGED << fixVars, mainVars, satVars, pipeVars, lonVars >>

NextFlip == FlipDigit

SpecFlip == InitFlip /\ [][NextFlip]_vars

(***************************************************************************)
(* C18.  For every element line that passes line_checksum, replacing any   *)
(* single digit other than the final check digit by a different digit      *)
(* yields a line that fails line_checksum, so a record parsed from it has  *)
(* is_valid() == false.                                                    *)
(***************************************************************************)
C18_DigitFlipFailsChecksum ==
    (checksum.kind # "Pending" /\ CheckDigitMatches(line)) =>
        /\ checksum = Ok(FALSE)
        /\ parsed.kind = "Ok" => ~is_valid(parsed.v)

\* a digit of a passing line was replaced and the record still parses
C18_Witness ==
    /\ checksum.kind # "Pending"
    /\ CheckDigitMatches(line)
    /\ line \notin {input[2], input[3]}
    /\ parsed.kind = "Ok"
    /\ ~is_valid(parsed.v)


(***************************************************************************)
(* C19.  For an element set with eccentricity 0 and inclination 0 the      *)
(* factor tmp is 1, so the J2 term of n(a) is 1.5 j2 (r/a)^2 sqrt(mu/a^3)  *)
(* and does not vanish: semimajor_axis_approx returns the value of         *)
(* semimajor_axis_ideal exactly where that term is itself below the        *)
(* solver's tolerance, and otherwise another value or None.                *)
(***************************************************************************)
CircularEquatorial ==
    /\ quantity = "semimajor_axis_approx"
    /\ orbit.eccentricity_sq = 0
    /\ orbit.sin_sq_inclination = 0

\* semimajor_axis_approx returned the value of semimajor_axis_ideal
ReturnsIdeal == value.kind = "Some" /\ value.v = orbit.a_ideal

C19_RefinedEqualsIdealIffTermNegligible ==
    CircularEquatorial => (ReturnsIdeal <=> orbit.j2_term = 0)

\* the refinement converged for a circular equatorial orbit, away from the
\* ideal axis
C19_Witness ==
    /\ CircularEquatorial
    /\ orbit.j2_term > 0
    /\ value.kind = "Some"
    /\ value.v # orbit.a_ideal

\* C19 as stated: with eccentricity 0 and inclination 0 semimajor_axis_approx
\* returns the value of semimajor_axis_ideal
C19_RefinedEqualsIdeal == CircularEquatorial => ReturnsIdeal


(***************************************************************************)
(* The ideal-axis quantities of the Satellite trait (satellite.rs), over   *)
(* a parsed element set and EARTH.  An f64 result is kept as a pair of     *)
(* whole numbers lo <= result <= hi in a fixed unit: each operation rounds *)
(* its lower end down and its upper end up, so the pair always encloses    *)
(* the value the source computes.                                          *)
(***************************************************************************)
EARTH_MU == 398600
\* 2 * PI in thousandths, from below and from above
TWO_PI_LO == 6283
TWO_PI_HI == 6284

Enclosure(lo, hi) == [lo |-> lo, hi |-> hi]

\* floor(v * 10^k), for a decimal v >= 0
Floor(v, k) ==
    IF v.e + k >= 0 THEN v.m * Pow10(v.e + k) ELSE v.m \div Pow10(0 - (v.e + k))
Enclose(v, k) == Enclosure(Floor(v, k), Floor(v, k) + 1)

\* the largest whole number whose cube is at most x, for x below 10^9
MaxRoot == 1000
Cbrt(x) == CHOOSE k \in 0..MaxRoot : k * k * k <= x /\ x < (k + 1) * (k + 1) * (k + 1)

Satellite_new(body, tle) == [body |-> body, tle |-> tle]
EARTH == [mu |-> EARTH_MU]

\* 86400 / mean_motion, in seconds; the mean motion in thousandths of a
\* revolution per day
period_of_revolution(sat) ==
    LET mm == Enclose(sat.tle.mean_motion, 3)
    IN  Enclosure((1000 * SECONDS_PER_DAY) \div mm.hi,
                  (1000 * SECONDS_PER_DAY) \div mm.lo + 1)

\* (mu * (period / 2 PI)^2).cbrt(), in units of 100 km: the square in units
\* of 10^4 s^2 and mu * square in units of 10^6 km^3
semimajor_axis_ideal_km(sat) ==
    LET p == period_of_revolution(sat)
        q == Enclosure((1000 * p.lo) \div TWO_PI_HI, (1000 * p.hi) \div TWO_PI_LO + 1)
        sq == Enclosure((q.lo * q.lo) \div 10000, (q.hi * q.hi) \div 10000 + 1)
        cube == Enclosure((sat.body.mu \div 100) * sq.lo, (sat.body.mu \div 100) * sq.hi + 1)
    IN  Enclosure(Cbrt(cube.lo), Cbrt(cube.hi) + 1)

\* semimajor_axis_ideal() * (1.0 - eccentricity) and * (1.0 + eccentricity),
\* in units of 100 km; the eccentricity in ten-thousandths
distance_perigee(sat) ==
    LET a == semimajor_axis_ideal_km(sat)
        ecc == Enclose(sat.tle.eccentricity, 4)
    IN  Enclosure((a.lo * (10000 - ecc.hi)) \div 10000,
                  (a.hi * (10000 - ecc.lo)) \div 10000 + 1)

distance_apogee(sat) ==
    LET a == semimajor_axis_ideal_km(sat)
        ecc == Enclose(sat.tle.eccentricity, 4)
    IN  Enclosure((a.lo * (10000 + ecc.lo)) \div 10000,
                  (a.hi * (10000 + ecc.hi)) \div 10000 + 1)

\* element sets: both fixtures, as they are and with other eccentricities
\* and mean motions (all positive), with passing and failing check digits
Eccentricities == {"0000000", "0008835", "9999999"}
MeanMotions == {" 1.00273791", " 2.00627254", "15.74622749", "16.00000000"}
IdealRecords ==
    { MakeRecord(fx, NoEdit, NoEdit, "good", end2) :
        fx \in {ISS, MOLNIYA}, end2 \in {"good", "bad"} }
    \cup { << fx[1], fx[2],
              WithEnding(Overwrite(Overwrite(fx[3], 26, ecc), 52, mm), end2) >> :
            fx \in {ISS, MOLNIYA}, ecc \in Eccentricities, mm \in MeanMotions,
            end2 \in {"good", "bad"} }

InitIdeal ==
    /\ input \in IdealRecords
    /\ parsed = NoRet
    /\ orbit = << >>
    /\ time = 0
    /\ quantity = ""
    /\ value = NoRet
    /\ IdleFix /\ IdleSum /\ IdleMain /\ IdlePipe /\ IdleLon

\* satellite::Satellite::new(EARTH, tle), for a record that parsed
SatelliteNew ==
    /\ parsed.kind = "Ok"
    /\ DOMAIN orbit = {}
    /\ orbit' = Satellite_new(EARTH, parsed.v)
    /\ UNCHANGED << time, quantity, value, fixVars, sumVars, tleVars, mainVars, pipeVars, lonVars >>

PeriodOfRevolution ==
    DOMAIN orbit # {} /\ Untimed("period_of_revolution", period_of_revolution(orbit))
SemimajorAxisIdeal ==
    DOMAIN orbit # {} /\ Untimed("semimajor_axis_ideal", semimajor_axis_ideal_km(orbit))
DistancePerigee ==
    DOMAIN orbit # {} /\ Untimed("distance_perigee", distance_perigee(orbit))
DistanceApogee ==
    DOMAIN orbit # {} /\ Untimed("distance_apogee", distance_apogee(orbit))

NextIdeal ==
    \/ NewTLE
    \/ SatelliteNew
    \/ PeriodOfRevolution
    \/ SemimajorAxisIdeal
    \/ DistancePerigee
    \/ DistanceApogee

SpecIdeal == InitIdeal /\ [][NextIdeal]_vars

(***************************************************************************)
(* C20.  distance_perigee is semimajor_axis_ideal * (1 - eccentricity)     *)
(* with mu = 398600 and period 86400 / mean_motion, and for the ISS        *)
(* fixture (mean motion 15.74622749 rev/day, eccentricity 0.0008835) its   *)
(* value equals the literal 6717901.720 of test_satellite_calculations.    *)
(***************************************************************************)
\* the literal of the test's assertion, 6717901.720
PERIGEE_LITERAL == [m |-> 671790172, e |-> -2]

IssElements ==
    /\ orbit.tle.mean_motion = [m |-> 1574622749, e |-> -8]
    /\ orbit.tle.eccentricity = [m |-> 8835, e |-> -7]
    /\ orbit.body.mu = 398600

\* a value in units of 100 that is enclosed by lo..hi
Encloses(x, v) == x.lo <= Floor(v, -2) /\ Floor(v, -2) <= x.hi

C20_PerigeeEqualsTestLiteral ==
    (quantity = "distance_perigee" /\ IssElements) => Encloses(value, PERIGEE_LITERAL)


(***************************************************************************)
(* The sub-satellite longitude of a Sample (track.rs, horizon.rs).  Angles *)
(* are whole degrees; sin, cos and tan are kept by their sign, which is    *)
(* what decides between a number and NaN in l1.                            *)
(***************************************************************************)
HALF_TURN == 180

\* the signs of x.sin(), x.cos() and x.tan() for x in degrees
SinSign(x) ==
    LET r == x % (2 * HALF_TURN)
    IN  IF r % HALF_TURN = 0 THEN 0 ELSE IF r < HALF_TURN THEN 1 ELSE -1
CosSign(x) == SinSign(x + HALF_TURN \div 2)
TanSign(x) == SinSign(x) * CosSign(x)

\* theta = ((omega_small + v).sin() * i_rad.sin()).asin(), by its sign; for
\* an inclination off 90 degrees theta.cos() is positive
theta_sign(inclination, u) == SinSign(u) * SinSign(inclination)
\* l1 = (theta.tan() / i_rad.tan()).atan2((omega_small + v).cos() / theta.cos()),
\* where u is omega_small + v
l1(inclination, u) ==
    atan2(fdiv(theta_sign(inclination, u), TanSign(inclination)),
          fdiv(CosSign(u), 1))

\* l1 + omega_big - lambda_g in degrees: NaN where l1 is
lambda(ang) ==
    LET l == l1(ang.inclination, ang.u)
    IN  IF l.class = "nan" THEN NaN
        ELSE Finite(l.v + ang.omega_big - ang.lambda_g)

\* track.rs: if lambda < -180.0 { lambda % 180.0 } else if lambda > 180.0
\* { -180.0 + (lambda % 180.0) } else { lambda }; a comparison with NaN is
\* false
lambda_normalized(lam) ==
    IF lam.class = "nan" THEN lam
    ELSE IF lam.v < -HALF_TURN THEN Finite(Rem(lam.v, HALF_TURN))
    ELSE IF lam.v > HALF_TURN THEN Finite(-HALF_TURN + Rem(lam.v, HALF_TURN))
    ELSE lam

\* horizon.rs: lambda: ((PI + lambda) % PI).to_degrees(); lambda_deg, which
\* horizon.rs computes as track.rs computes lambda_normalized, is not used
lambda_wrapped(lam) ==
    IF lam.class = "nan" THEN lam
    ELSE Finite(Rem(HALF_TURN + lam.v, HALF_TURN))

\* horizon.rs: beta, distance and elevation are computed from
\* (lambda - lambda_ground).cos()
elevation(lam, cell) ==
    IF lam.class = "nan" THEN NaN ELSE Finite(cell.elevation)

\* the closures, for the longitude and what the filter reads
track_longitude(ang) == [lambda |-> lambda_normalized(lambda(ang))]
horizon_longitude(ang) ==
    [lambda |-> lambda_wrapped(lambda(ang)),
     elevation |-> elevation(lambda(ang), ang.cell)]

\* .filter(|s| s.elevation > -3.0): false of NaN
kept(s) ==
    s.elevation.class = "finite" /\ above_horizon([elevation |-> s.elevation.v])

\* inclinations (equatorial, inclined, retrograde), arguments of latitude in
\* each quadrant and between them, nodes that have drifted by up to two
\* turns and more, Greenwich angles of either sign
MaxNode == 800
Angles ==
    [inclination : {0, 52, 120},
     u : {0, 45, 90, 135, 180, 225, 270, 315},
     omega_big : {-MaxNode, -540, -400, -360, -270, -180, -90, 0,
                  90, 180, 270, 360, 400, 540, MaxNode},
     lambda_g : {-270, -99, 0, 99, 270},
     cell : {Visible, Below}]

InitLongitude ==
    /\ angles \in Angles
    /\ emitted = << >>
    /\ IdleFix /\ IdleSum /\ IdleTLE /\ IdleMain /\ IdleSat /\ IdlePipe

Ran(mode) == \E k \in DOMAIN emitted : emitted[k].mode = mode

Collect(mode, samples) ==
    /\ ~Ran(mode)
    /\ emitted' = Append(emitted, [mode |-> mode, samples |-> samples])
    /\ UNCHANGED << angles, fixVars, sumVars, tleVars, mainVars, satVars, pipeVars >>

TrackLongitude == Collect("track", << track_longitude(angles) >>)
HorizonLongitude ==
    Collect("horizon", SelectSeq(<< horizon_longitude(angles) >>, kept))

NextLongitude == TrackLongitude \/ HorizonLongitude

SpecLongitude == InitLongitude /\ [][NextLongitude]_vars


(***************************************************************************)
(* C21.  The sub-satellite longitude carried by every emitted Sample, in   *)
(* the ground-track mode and in the horizon mode, is a number within       *)
(* [-180, 180] degrees, whatever l1 + Omega - lambda_g is, also below -360 *)
(* or above 360 degrees.                                                   *)
(***************************************************************************)
WithinHalfTurn(x) == x.class = "finite" /\ -180 <= x.v /\ x.v <= 180

C21_LongitudeWithinHalfTurn ==
    \A k \in DOMAIN emitted :
        \A j \in DOMAIN emitted[k].samples :
            WithinHalfTurn(emitted[k].samples[j].lambda)

\* the same of the samples whose longitude is a number
C21_NumbersWithinHalfTurn ==
    \A k \in DOMAIN emitted :
        \A j \in DOMAIN emitted[k].samples :
            LET x == emitted[k].samples[j].lambda
            IN  x.class = "finite" => WithinHalfTurn(x)

\* a longitude was emitted for a raw value beyond two turns
C21_WideRawEmitted ==
    /\ lambda(angles).class = "finite"
    /\ lambda(angles).v > 720
    /\ \E k \in DOMAIN emitted : emitted[k].mode = "horizon" /\ emitted[k].samples # << >>
    /\ \E k \in DOMAIN emitted : emitted[k].mode = "track"

(***************************************************************************)
(* C22.  Both modes emit the same longitude for the same satellite and     *)
(* time: a raw value l1 + Omega - lambda_g within [-180, 180] degrees as   *)
(* it is, one above 180 as -180 + (raw rem 180), one below -180 as         *)
(* raw rem 180, the remainder keeping the sign of raw.                     *)
(***************************************************************************)
SignedRem(x, m) == IF x < 0 THEN 0 - ((0 - x) % m) ELSE x % m
AsSpecified(raw) ==
    IF raw > 180 THEN SignedRem(raw, 180) - 180
    ELSE IF raw < -180 THEN SignedRem(raw, 180)
    ELSE raw

C22_SameNormalization ==
    LET raw == lambda(angles)
    IN  raw.class = "finite" =>
            \A k \in DOMAIN emitted :
                \A j \in DOMAIN emitted[k].samples :
                    /\ emitted[k].samples[j].lambda.class = "finite"
                    /\ emitted[k].samples[j].lambda.v = AsSpecified(raw.v)

\* the ground-track mode alone emits the longitude as specified
C22_TrackAsSpecified ==
    LET raw == lambda(angles)
    IN  raw.class = "finite" =>
            \A k \in DOMAIN emitted :
                emitted[k].mode = "track" =>
                    \A j \in DOMAIN emitted[k].samples :
                        emitted[k].samples[j].lambda = Finite(AsSpecified(raw.v))

=============================================================================
